---- MODULE Spec2Model ----
(***************************************************************************)
(* RBAC policy engine of the openclaw rbac extension: configuration        *)
(* loader, role resolver, tool guard, rate limiter, command guard and the  *)
(* three hooks of the plugin surface.                                      *)
(*                                                                         *)
(* Strings the code inspects character by character (tool names, tool      *)
(* patterns, commands, message contents) are sequences of one-character    *)
(* strings.  Strings the code only compares as a whole (role names, peer   *)
(* ids, channel names, reply bodies) are TLA+ strings.  An optional value  *)
(* is a sequence of length 0 (absent / null / undefined) or 1.             *)
(***************************************************************************)
EXTENDS Integers, Sequences, FiniteSets, TLC

VARIABLES
    doc,           \* api.pluginConfig: the raw policy document
    loaded,        \* outcome of register(): not yet run, failed, or config
    now,           \* Date.now()
    pendingBlock,  \* command-guard module variable `pendingBlock`
    peers,         \* RateLimiter.peers
    last,          \* the last call made and what it returned
    hist           \* history of the run, read only by the properties

vars == <<doc, loaded, now, pendingBlock, peers, last, hist>>

\* ---------------------------------------------------------------- bounds

MaxRoles == 2
MaxTicks == 3
MaxCalls == 4
MaxPending == 2
MaxSegs == 6
MaxSpecs == 3
MaxChats == 2

\* ------------------------------------------------------- string helpers

None == <<>>
Some(x) == <<x>>

StartsWith(s, p) == Len(p) <= Len(s) /\ SubSeq(s, 1, Len(p)) = p
EndsWith(s, p) == Len(p) <= Len(s) /\ SubSeq(s, Len(s) - Len(p) + 1, Len(s)) = p
Includes(list, x) == \E i \in 1..Len(list) : list[i] = x
Range(s) == {s[i] : i \in 1..Len(s)}

\* ------------------------------------------------------------ data model

Wild == [wild |-> TRUE, list |-> <<>>]
List(l) == [wild |-> FALSE, list |-> l]

NoRole == [name |-> "", users |-> Wild, tools |-> Wild, channels |-> Wild]

\* A property every plain JavaScript object inherits from Object.prototype.
\* `obj[name]` yields it (a truthy function) when `name` is no own key.
ProtoName == "constructor"
ProtoNameStr == <<"c", "o", "n", "s", "t", "r", "u", "c", "t", "o", "r">>

\* config.roles[roleName]
RolesGet(roles, roleName) ==
    IF \E i \in 1..Len(roles) : roles[i].name = roleName
    THEN [kind |-> "own",
          role |-> roles[CHOOSE i \in 1..Len(roles) : roles[i].name = roleName]]
    ELSE IF roleName = ProtoName
    THEN [kind |-> "inherited", role |-> NoRole]
    ELSE [kind |-> "undefined", role |-> NoRole]

\* config.toolGroups[groupName]
GroupsGet(toolGroups, groupName) ==
    IF \E i \in 1..Len(toolGroups) : toolGroups[i].name = groupName
    THEN [kind |-> "own",
          tools |-> toolGroups[CHOOSE i \in 1..Len(toolGroups) :
                                   toolGroups[i].name = groupName].tools]
    ELSE IF groupName = ProtoNameStr
    THEN [kind |-> "inherited", tools |-> <<>>]
    ELSE [kind |-> "undefined", tools |-> <<>>]

\* ------------------------------------------------------------ tool guard

RECURSIVE expandFrom(_, _, _)
expandFrom(tools, toolGroups, i) ==
    IF i > Len(tools)
    THEN [exact |-> <<>>, wildcards |-> <<>>, throws |-> FALSE]
    ELSE LET entry == tools[i]
             rest == expandFrom(tools, toolGroups, i + 1)
         IN  IF EndsWith(entry, <<"_", "*">>)
             THEN [rest EXCEPT !.wildcards = <<entry>> \o @]
             ELSE IF StartsWith(entry, <<"@">>)
             THEN LET g == GroupsGet(toolGroups, SubSeq(entry, 2, Len(entry)))
                  IN  IF g.kind = "own"
                      THEN [rest EXCEPT !.exact = g.tools \o @]
                      ELSE IF g.kind = "inherited"
                      \* spreading a function: TypeError
                      THEN [rest EXCEPT !.throws = TRUE]
                      ELSE rest
             ELSE [rest EXCEPT !.exact = <<entry>> \o @]

expandTools(tools, config) == expandFrom(tools, config.toolGroups, 1)

NoReason == [kind |-> "none", role |-> "", tool |-> <<>>]
UnknownRole(r) == [kind |-> "Unknown role", role |-> r, tool |-> <<>>]
NoAccess(r, t) == [kind |-> "does not have access", role |-> r, tool |-> t]

GuardAllowed(r) == [outcome |-> "return", allowed |-> TRUE, role |-> r, reason |-> NoReason]
GuardDenied(r, why) == [outcome |-> "return", allowed |-> FALSE, role |-> r, reason |-> why]
GuardThrows(r) == [outcome |-> "TypeError", allowed |-> FALSE, role |-> r, reason |-> NoReason]

\* pattern.slice(0, -1), startsWith, and the strict length test
WildcardMatches(pattern, toolName) ==
    LET prefix == SubSeq(pattern, 1, Len(pattern) - 1)
    IN  StartsWith(toolName, prefix) /\ Len(toolName) > Len(prefix)

checkToolAccess(toolName, roleName, config) ==
    LET r == RolesGet(config.roles, roleName)
    IN  IF r.kind = "undefined"
        THEN GuardDenied(roleName, UnknownRole(roleName))
        ELSE IF r.kind = "inherited"
        \* role.tools is undefined: not "*", and expandTools iterates it
        THEN GuardThrows(roleName)
        ELSE IF r.role.tools.wild
        THEN GuardAllowed(roleName)
        ELSE LET e == expandTools(r.role.tools.list, config)
             IN  IF e.throws
                 THEN GuardThrows(roleName)
                 ELSE IF Includes(e.exact, toolName)
                 THEN GuardAllowed(roleName)
                 ELSE IF \E i \in 1..Len(e.wildcards) :
                             WildcardMatches(e.wildcards[i], toolName)
                 THEN GuardAllowed(roleName)
                 ELSE GuardDenied(roleName, NoAccess(roleName, toolName))

\* --------------------------------------------------------- role resolver

usersMatch(role, peerId) == role.users.wild \/ Includes(role.users.list, peerId)

\* mutant: a null channel matches a specific channel list
channelsMatchNullAny(role, channel) ==
    IF role.channels.wild THEN TRUE
    ELSE IF channel = None THEN TRUE
    ELSE Includes(role.channels.list, channel[1])

\* mutant: an empty channel list matches like the wildcard
channelsMatchEmptyAny(role, channel) ==
    IF role.channels.wild \/ Len(role.channels.list) = 0 THEN TRUE
    ELSE IF channel = None THEN FALSE
    ELSE Includes(role.channels.list, channel[1])

\* channel is None (null) or Some(name)
channelsMatch(role, channel) ==
    IF role.channels.wild THEN TRUE
    ELSE IF channel = None THEN FALSE
    ELSE Includes(role.channels.list, channel[1])

RECURSIVE resolveFrom(_, _, _, _)
resolveFrom(peerId, channel, config, i) ==
    IF i > Len(config.roles) THEN config.defaultRole
    ELSE IF ~usersMatch(config.roles[i], peerId)
    THEN resolveFrom(peerId, channel, config, i + 1)
    ELSE IF ~channelsMatch(config.roles[i], channel)
    THEN resolveFrom(peerId, channel, config, i + 1)
    ELSE config.roles[i].name

resolveRole(peerId, channel, config) == resolveFrom(peerId, channel, config, 1)

\* --------------------------------------------------------- command guard

STALE_MS == 10000

Whitespace == {" ", "\t", "\n"}

\* String.prototype.toLowerCase, on the letters the model's inputs use
LowerChar(c) ==
    CASE c = "H" -> "h" [] c = "E" -> "e" [] c = "L" -> "l" [] c = "P" -> "p"
      [] c = "S" -> "s" [] c = "T" -> "t" [] c = "X" -> "x"
      [] c = "O" -> "o" [] c = "K" -> "k"
      [] OTHER -> c

ToLowerCase(s) == [i \in 1..Len(s) |-> LowerChar(s[i])]

RECURSIVE TrimStart(_)
TrimStart(s) ==
    IF s # <<>> /\ Head(s) \in Whitespace THEN TrimStart(Tail(s)) ELSE s

RECURSIVE TrimEnd(_)
TrimEnd(s) ==
    IF s # <<>> /\ s[Len(s)] \in Whitespace
    THEN TrimEnd(SubSeq(s, 1, Len(s) - 1)) ELSE s

\* String.prototype.trim
Trim(s) == TrimEnd(TrimStart(s))

\* String.prototype.indexOf(" "), 1-based; 0 when there is none
IndexOfSpace(s) ==
    IF \E i \in 1..Len(s) : s[i] = " "
    THEN CHOOSE i \in 1..Len(s) : s[i] = " " /\ \A j \in 1..(i - 1) : s[j] # " "
    ELSE 0

extractCommand(trimmed) ==
    IF ~StartsWith(trimmed, <<"/">>) THEN None
    ELSE LET spaceIdx == IndexOfSpace(trimmed)
         IN  IF spaceIdx = 0 THEN Some(trimmed)
             ELSE Some(SubSeq(trimmed, 1, spaceIdx - 1))

cmdHelp == <<"/", "h", "e", "l", "p">>

\* config is a SystemCommandsConfig; the result is None or Some(command)
matchBlockedCommand(content, config) ==
    LET trimmed == ToLowerCase(Trim(content))
        command == extractCommand(trimmed)
    IN  IF command = None THEN None
        ELSE IF config.guestHelp # None /\ command[1] = cmdHelp THEN Some(cmdHelp)
        ELSE IF config.mode = "allowlist"
        THEN IF Includes(config.allowed, command[1]) THEN None ELSE command
        ELSE IF Includes(config.blocked, command[1]) THEN command
        ELSE None

\* the value of `pendingBlock` after setPendingBlock(command) at time t
setPendingBlock(command, t) == Some([command |-> command, timestamp |-> t])

\* mutant: the slot is not cleared
consumeKeepsSlot(pb, t) ==
    IF pb = None THEN [pendingBlock |-> None, result |-> None]
    ELSE IF t - pb[1].timestamp > STALE_MS
    THEN [pendingBlock |-> pb, result |-> None]
    ELSE [pendingBlock |-> pb, result |-> Some(pb[1].command)]

\* mutant: a block of age exactly STALE_MS is already stale
consumeStaleAtThreshold(pb, t) ==
    IF pb = None THEN [pendingBlock |-> None, result |-> None]
    ELSE IF t - pb[1].timestamp >= STALE_MS
    THEN [pendingBlock |-> None, result |-> None]
    ELSE [pendingBlock |-> None, result |-> Some(pb[1].command)]

\* consumePendingBlock() at time t: the new `pendingBlock` and the result
consumePendingBlock(pb, t) ==
    IF pb = None THEN [pendingBlock |-> None, result |-> None]
    ELSE IF t - pb[1].timestamp > STALE_MS
    THEN [pendingBlock |-> None, result |-> None]
    ELSE [pendingBlock |-> None, result |-> Some(pb[1].command)]

getBlockResponse(command, config) ==
    IF command = cmdHelp /\ config.guestHelp # None
    THEN config.guestHelp[1]
    ELSE config.blockResponse

\* mutant: every configured role counts as admin
isAdminAnyRole(roleName, roles) == RolesGet(roles, roleName).kind = "own"

isAdminByTools(roleName, roles) ==
    LET r == RolesGet(roles, roleName)
    IN  r.kind = "own" /\ r.role.tools.wild

\* ---------------------------------------------------------- rate limiter

WINDOW_MS == 60000

\* this.peers.get(peerId): None or Some(PeerWindow)
PeersGet(ps, peerId) == IF peerId \in DOMAIN ps THEN Some(ps[peerId]) ELSE None

\* mutant: one window shared by all the peers
PeersSetShared(ps, peerId, peer) ==
    [q \in DOMAIN ps \cup {peerId} |-> peer]

\* this.peers.set(peerId, peer), and the in-place updates of the stored window
PeersSet(ps, peerId, peer) ==
    [q \in DOMAIN ps \cup {peerId} |-> IF q = peerId THEN peer ELSE ps[q]]

\* mutant: one line more than the limit is logged
shouldLogOneMore(ps, peerId, t, max) ==
    LET old == PeersGet(ps, peerId)
        peer == IF old = None \/ t - old[1].windowStart >= WINDOW_MS
                THEN [windowStart |-> t, logged |-> 0, suppressed |-> 0]
                ELSE old[1]
    IN  IF peer.logged <= max
        THEN [peers |-> PeersSet(ps, peerId, [peer EXCEPT !.logged = @ + 1]),
              result |-> TRUE]
        ELSE [peers |-> PeersSet(ps, peerId, [peer EXCEPT !.suppressed = @ + 1]),
              result |-> FALSE]

\* mutant: a window of age exactly WINDOW_MS is still open
shouldLogExpiresLate(ps, peerId, t, max) ==
    LET old == PeersGet(ps, peerId)
        peer == IF old = None \/ t - old[1].windowStart > WINDOW_MS
                THEN [windowStart |-> t, logged |-> 0, suppressed |-> 0]
                ELSE old[1]
    IN  IF peer.logged < max
        THEN [peers |-> PeersSet(ps, peerId, [peer EXCEPT !.logged = @ + 1]),
              result |-> TRUE]
        ELSE [peers |-> PeersSet(ps, peerId, [peer EXCEPT !.suppressed = @ + 1]),
              result |-> FALSE]

\* shouldLog(peerId) at time t on a limiter with maxPerMinute = max:
\* the new map and the returned boolean
shouldLog(ps, peerId, t, max) ==
    LET old == PeersGet(ps, peerId)
        peer == IF old = None \/ t - old[1].windowStart >= WINDOW_MS
                THEN [windowStart |-> t, logged |-> 0, suppressed |-> 0]
                ELSE old[1]
    IN  IF peer.logged < max
        THEN [peers |-> PeersSet(ps, peerId, [peer EXCEPT !.logged = @ + 1]),
              result |-> TRUE]
        ELSE [peers |-> PeersSet(ps, peerId, [peer EXCEPT !.suppressed = @ + 1]),
              result |-> FALSE]

getSuppressed(ps, peerId, t) ==
    LET peer == PeersGet(ps, peerId)
    IN  IF peer = None THEN 0
        ELSE IF t - peer[1].windowStart >= WINDOW_MS THEN 0
        ELSE peer[1].suppressed

\* ---------------------------------------------------- configuration loader
\* A raw document field is [t, list]: t = "absent" (undefined), "wild" ("*"),
\* "list" (an array of strings) or "bad" (any other value).

Absent == [t |-> "absent", list |-> <<>>]
RawWild == [t |-> "wild", list |-> <<>>]
RawList(l) == [t |-> "list", list |-> l]
Bad == [t |-> "bad", list |-> <<>>]

LoadError(kind, role, other) ==
    [ok |-> FALSE, error |-> [kind |-> kind, role |-> role, other |-> other]]

parseUsers(value, roleName) ==
    IF value.t = "wild" THEN [ok |-> TRUE, value |-> Wild]
    ELSE IF value.t = "list" THEN [ok |-> TRUE, value |-> List(value.list)]
    ELSE LoadError("users", roleName, "")

parseTools(value, roleName) ==
    IF value.t = "wild" THEN [ok |-> TRUE, value |-> Wild]
    ELSE IF value.t = "list" THEN [ok |-> TRUE, value |-> List(value.list)]
    ELSE LoadError("tools", roleName, "")

parseChannels(value, roleName) ==
    IF value.t \in {"absent", "wild"} THEN [ok |-> TRUE, value |-> Wild]
    ELSE IF value.t = "list" THEN [ok |-> TRUE, value |-> List(value.list)]
    ELSE LoadError("channels", roleName, "")

\* toolGroups: None (absent) or Some(sequence of [name, tools: raw field])
RECURSIVE parseGroupsFrom(_, _)
parseGroupsFrom(groups, i) ==
    IF i > Len(groups) THEN [ok |-> TRUE, value |-> <<>>]
    ELSE IF groups[i].tools.t # "list"
    THEN LoadError("toolGroups", "", "")
    ELSE LET rest == parseGroupsFrom(groups, i + 1)
         IN  IF ~rest.ok THEN rest
             ELSE [ok |-> TRUE,
                   value |-> <<[name |-> groups[i].name,
                                tools |-> groups[i].tools.list]>> \o rest.value]

parseToolGroups(value) ==
    IF value = None THEN [ok |-> TRUE, value |-> <<>>]
    ELSE parseGroupsFrom(value[1], 1)

\* rateLimit: None (absent) or Some(maxBlockedPerMinute)
parseRateLimit(value) ==
    IF value = None THEN [ok |-> TRUE, value |-> None]
    ELSE IF value[1] < 1 THEN LoadError("rateLimit", "", "")
    ELSE [ok |-> TRUE, value |-> Some(value[1])]

\* failSafe: "absent", or the string given
parseFailSafe(value) ==
    IF value = "absent" THEN [ok |-> TRUE, value |-> "deny"]
    ELSE IF value \in {"deny", "allow"} THEN [ok |-> TRUE, value |-> value]
    ELSE LoadError("failSafe", "", "")

\* mutant: the case of the command is kept
normalizeKeepsCase(cmd) ==
    LET c == Trim(cmd)
    IN  IF StartsWith(c, <<"/">>) THEN c ELSE <<"/">> \o c

normalizeCommand(cmd) ==
    LET c == Trim(ToLowerCase(cmd))
    IN  IF StartsWith(c, <<"/">>) THEN c ELSE <<"/">> \o c

normalizeCommands(arr) == [i \in 1..Len(arr) |-> normalizeCommand(arr[i])]

\* systemCommands: None (absent) or Some([mode, blocked, allowed, guestHelp,
\* blockResponse]); mode is "absent" or the string given, blocked and allowed
\* are raw fields, guestHelp and blockResponse are None or Some(text)
parseSystemCommands(value) ==
    IF value = None THEN [ok |-> TRUE, value |-> None]
    ELSE LET obj == value[1]
             resolvedMode == IF obj.mode = "absent" THEN "blocklist" ELSE obj.mode
         IN  IF obj.mode \notin {"absent", "blocklist", "allowlist"}
             THEN LoadError("systemCommands.mode", "", "")
             ELSE IF obj.blocked.t \notin {"absent", "list"}
             THEN LoadError("systemCommands.blocked", "", "")
             ELSE IF resolvedMode = "blocklist"
                     /\ (obj.blocked.t # "list" \/ Len(obj.blocked.list) = 0)
             THEN LoadError("systemCommands.blocked required", "", "")
             ELSE IF obj.allowed.t \notin {"absent", "list"}
             THEN LoadError("systemCommands.allowed", "", "")
             ELSE IF resolvedMode = "allowlist" /\ obj.allowed.t # "list"
             THEN LoadError("systemCommands.allowed required", "", "")
             ELSE IF obj.blockResponse = None
             THEN LoadError("systemCommands.blockResponse", "", "")
             ELSE [ok |-> TRUE,
                   value |-> Some([mode |-> resolvedMode,
                                   blocked |-> IF obj.blocked.t = "list"
                                               THEN normalizeCommands(obj.blocked.list)
                                               ELSE <<>>,
                                   allowed |-> IF obj.allowed.t = "list"
                                               THEN normalizeCommands(obj.allowed.list)
                                               ELSE <<>>,
                                   guestHelp |-> obj.guestHelp,
                                   blockResponse |-> obj.blockResponse[1]])]

\* the loop over Object.entries(rolesRaw), from entry i on
RECURSIVE parseRolesFrom(_, _, _, _, _)
parseRolesFrom(rolesRaw, i, firstWildcardRole, roles, warnings) ==
    IF i > Len(rolesRaw)
    THEN [ok |-> TRUE, roles |-> roles, warnings |-> warnings]
    ELSE LET roleName == rolesRaw[i].name
             users == parseUsers(rolesRaw[i].users, roleName)
             tools == parseTools(rolesRaw[i].tools, roleName)
             channels == parseChannels(rolesRaw[i].channels, roleName)
         IN  IF ~users.ok THEN users
             ELSE IF ~tools.ok THEN tools
             ELSE IF ~channels.ok THEN channels
             ELSE IF ~users.value.wild /\ firstWildcardRole # None
             THEN LoadError("wildcard order", firstWildcardRole[1], roleName)
             ELSE parseRolesFrom(
                    rolesRaw, i + 1,
                    IF users.value.wild /\ firstWildcardRole = None
                    THEN Some(roleName) ELSE firstWildcardRole,
                    roles \o <<[name |-> roleName, users |-> users.value,
                                tools |-> tools.value, channels |-> channels.value]>>,
                    warnings
                      \o (IF ~tools.value.wild /\ Len(tools.value.list) = 0
                          THEN <<[kind |-> "empty tools", role |-> roleName]>>
                          ELSE <<>>)
                      \o (IF ~channels.value.wild /\ Len(channels.value.list) = 0
                          THEN <<[kind |-> "empty channels", role |-> roleName]>>
                          ELSE <<>>))

\* the scan of every role's tool list for @name references
GroupRefMissing(tool, toolGroups) ==
    /\ StartsWith(tool, <<"@">>)
    /\ GroupsGet(toolGroups, SubSeq(tool, 2, Len(tool))).kind = "undefined"

validateGroupRefs(roles, toolGroups) ==
    LET bad == {i \in 1..Len(roles) :
                   /\ ~roles[i].tools.wild
                   /\ \E j \in 1..Len(roles[i].tools.list) :
                         GroupRefMissing(roles[i].tools.list[j], toolGroups)}
    IN  IF bad = {} THEN [ok |-> TRUE]
        ELSE LoadError("tool group",
                       roles[CHOOSE i \in bad : \A k \in bad : i <= k].name, "")

\* rbacConfigSchema.parse.  The document is [roles, defaultRole, toolGroups,
\* failSafe, rateLimit, systemCommands, logBlocked, logAllowed]; roles is None
\* (not an object) or Some(entries in iteration order); logBlocked and
\* logAllowed are None or Some(boolean).
parse(value) ==
    IF value.roles = None THEN LoadError("roles", "", "")
    ELSE LET rs == parseRolesFrom(value.roles[1], 1, None, <<>>, <<>>)
         IN  IF ~rs.ok THEN rs
             ELSE IF Len(rs.roles) = 0 THEN LoadError("roles empty", "", "")
             ELSE LET defaultRole == IF value.defaultRole = None THEN "guest"
                                     ELSE value.defaultRole[1]
                      toolGroups == parseToolGroups(value.toolGroups)
                      failSafe == parseFailSafe(value.failSafe)
                      rateLimit == parseRateLimit(value.rateLimit)
                      systemCommands == parseSystemCommands(value.systemCommands)
                  IN  IF RolesGet(rs.roles, defaultRole).kind = "undefined"
                      THEN LoadError("defaultRole", defaultRole, "")
                      ELSE IF ~toolGroups.ok THEN toolGroups
                      ELSE IF ~failSafe.ok THEN failSafe
                      ELSE IF ~rateLimit.ok THEN rateLimit
                      ELSE IF ~systemCommands.ok THEN systemCommands
                      ELSE IF ~validateGroupRefs(rs.roles, toolGroups.value).ok
                      THEN validateGroupRefs(rs.roles, toolGroups.value)
                      ELSE [ok |-> TRUE,
                            config |-> [roles |-> rs.roles,
                                        defaultRole |-> defaultRole,
                                        logBlocked |-> value.logBlocked # Some(FALSE),
                                        logAllowed |-> value.logAllowed = Some(TRUE),
                                        failSafe |-> failSafe.value,
                                        toolGroups |-> toolGroups.value,
                                        rateLimit |-> rateLimit.value,
                                        systemCommands |-> systemCommands.value,
                                        warnings |-> rs.warnings]]

\* ----------------------------------------------------- session-key parser
\* A session key is a sequence of tokens: ":" or a piece of text without ":".

\* String.prototype.split(":")
RECURSIVE splitFrom(_, _, _)
splitFrom(key, i, cur) ==
    IF i > Len(key) THEN <<cur>>
    ELSE IF key[i] = ":" THEN <<cur>> \o splitFrom(key, i + 1, "")
    ELSE splitFrom(key, i + 1, cur \o key[i])

split(key) == splitFrom(key, 1, "")

PEER_KINDS == {"direct", "group", "channel"}

\* mutant: the scan starts at the agent id
parseSessionKeyFromAgentId(sessionKey) ==
    LET parts == split(sessionKey)
        found == {i \in 2..(Len(parts) - 1) : parts[i] \in PEER_KINDS}
    IN  IF Len(parts) < 4 THEN None
        ELSE IF found = {} THEN None
        ELSE LET i == CHOOSE k \in found : \A m \in found : k <= m
             IN  IF parts[i + 1] = "" THEN None
                 ELSE Some([peerId |-> parts[i + 1],
                            channel |-> IF i >= 4 THEN Some(parts[3]) ELSE None,
                            peerKind |-> parts[i]])

\* mutant: a peer kind followed by an empty segment is skipped
parseSessionKeySkipsEmptyPeer(sessionKey) ==
    LET parts == split(sessionKey)
        found == {i \in 3..(Len(parts) - 1) :
                     parts[i] \in PEER_KINDS /\ parts[i + 1] # ""}
    IN  IF Len(parts) < 4 THEN None
        ELSE IF found = {} THEN None
        ELSE LET i == CHOOSE k \in found : \A m \in found : k <= m
             IN  Some([peerId |-> parts[i + 1],
                       channel |-> IF i >= 4 THEN Some(parts[3]) ELSE None,
                       peerKind |-> parts[i]])

\* None, or Some([peerId, channel, peerKind])
parseSessionKey(sessionKey) ==
    LET parts == split(sessionKey)
        found == {i \in 3..(Len(parts) - 1) : parts[i] \in PEER_KINDS}
    IN  IF Len(parts) < 4 THEN None
        ELSE IF found = {} THEN None
        ELSE LET i == CHOOSE k \in found : \A m \in found : k <= m
             IN  IF parts[i + 1] = "" THEN None
                 ELSE Some([peerId |-> parts[i + 1],
                            channel |-> IF i >= 4 THEN Some(parts[3]) ELSE None,
                            peerKind |-> parts[i]])

\* -------------------------------------------------------- plugin surface

Running == loaded # None /\ loaded[1].ok
Config == loaded[1].config

FailSafeReason == [kind |-> "unrecognized session (RBAC failSafe)", role |-> "", tool |-> <<>>]
Block(reason) == Some([block |-> TRUE, blockReason |-> reason])

HookReturn(verdict, ps, logs) ==
    [outcome |-> "return", verdict |-> verdict, peers |-> ps, logs |-> logs]

\* mutant: an unparseable key is let through whatever failSafe says
onUnparsedKeyFailOpen(config, ps) == HookReturn(None, ps, <<>>)

\* the branch of before_tool_call taken when parseSessionKey returns null
onUnparsedKey(config, ps) ==
    IF config.failSafe = "deny"
    THEN HookReturn(Block(FailSafeReason), ps, <<"BLOCKED">>)
    ELSE HookReturn(None, ps, <<>>)

\* mutant: a call whose log line is suppressed is let through
onDeniedSuppressedPasses(result, peerId, config, ps, t) ==
    LET sl == shouldLog(ps, peerId, t, config.rateLimit[1])
    IN  IF ~config.logBlocked
        THEN HookReturn(Block(result.reason), ps, <<>>)
        ELSE IF config.rateLimit = None
        THEN HookReturn(Block(result.reason), ps, <<"BLOCKED">>)
        ELSE IF sl.result
        THEN HookReturn(Block(result.reason), sl.peers, <<"BLOCKED">>)
        ELSE IF getSuppressed(sl.peers, peerId, t) = 1
        THEN HookReturn(Block(result.reason), sl.peers, <<"rate limit exceeded">>)
        ELSE HookReturn(None, sl.peers, <<>>)

\* mutant: the notice is repeated for every suppressed line
onDeniedNoticeEveryTime(result, peerId, config, ps, t) ==
    LET sl == shouldLog(ps, peerId, t, config.rateLimit[1])
    IN  IF ~config.logBlocked
        THEN HookReturn(Block(result.reason), ps, <<>>)
        ELSE IF config.rateLimit = None
        THEN HookReturn(Block(result.reason), ps, <<"BLOCKED">>)
        ELSE IF sl.result
        THEN HookReturn(Block(result.reason), sl.peers, <<"BLOCKED">>)
        ELSE IF getSuppressed(sl.peers, peerId, t) >= 1
        THEN HookReturn(Block(result.reason), sl.peers, <<"rate limit exceeded">>)
        ELSE HookReturn(Block(result.reason), sl.peers, <<>>)

\* the branch of before_tool_call taken when the tool guard denies: log
\* through the rate limiter if there is one, then block
onDenied(result, peerId, config, ps, t) ==
    LET sl == shouldLog(ps, peerId, t, config.rateLimit[1])
    IN  IF ~config.logBlocked
        THEN HookReturn(Block(result.reason), ps, <<>>)
        ELSE IF config.rateLimit = None
        THEN HookReturn(Block(result.reason), ps, <<"BLOCKED">>)
        ELSE IF sl.result
        THEN HookReturn(Block(result.reason), sl.peers, <<"BLOCKED">>)
        ELSE IF getSuppressed(sl.peers, peerId, t) = 1
        THEN HookReturn(Block(result.reason), sl.peers, <<"rate limit exceeded">>)
        ELSE HookReturn(Block(result.reason), sl.peers, <<>>)

\* the before_tool_call handler at time t.  sessionKey is None (undefined) or
\* Some(key); the rate limiter exists iff config.rateLimit is set.
beforeToolCall(toolName, sessionKey, config, ps, t) ==
    IF sessionKey = None \/ sessionKey[1] = <<>>
    THEN HookReturn(None, ps, <<>>)
    ELSE LET parsed == parseSessionKey(sessionKey[1])
         IN  IF parsed = None
             THEN onUnparsedKey(config, ps)
             ELSE LET peerId == parsed[1].peerId
                      roleName == resolveRole(peerId, parsed[1].channel, config)
                      result == checkToolAccess(toolName, roleName, config)
                  IN  IF result.outcome # "return"
                      THEN [outcome |-> result.outcome, verdict |-> None,
                            peers |-> ps, logs |-> <<>>]
                      ELSE IF ~result.allowed
                      THEN onDenied(result, peerId, config, ps, t)
                      ELSE HookReturn(None, ps,
                                      IF config.logAllowed THEN <<"ALLOWED">> ELSE <<>>)

\* the message_received handler up to its call of setPendingBlock: the
\* command it passes (Some), or None when it returns before the call.  content
\* and from are None (undefined) or Some(value); channelId is None or Some(name).
commandToBlock(content, from, channelId, config) ==
    IF content = None \/ content[1] = <<>> \/ ~StartsWith(Trim(content[1]), <<"/">>)
    THEN None
    ELSE LET command == matchBlockedCommand(content[1], config.systemCommands[1])
         IN  IF command = None THEN None
             ELSE IF from = None \/ from[1] = "" THEN None
             ELSE IF isAdminByTools(resolveRole(from[1], channelId, config), config.roles)
             THEN None
             ELSE command

\* the message_received handler at time t: the new pendingBlock
messageReceived(content, from, channelId, config, pb, t) ==
    LET command == commandToBlock(content, from, channelId, config)
    IN  IF command = None THEN pb ELSE setPendingBlock(command[1], t)

\* the message_sending handler at time t: the new pendingBlock, the consumed
\* command and the returned { content } (None when it returns nothing)
messageSending(config, pb, t) ==
    LET c == consumePendingBlock(pb, t)
    IN  [pendingBlock |-> c.pendingBlock,
         command |-> c.result,
         result |-> IF c.result = None THEN None
                    ELSE Some(getBlockResponse(c.result[1], config.systemCommands[1]))]

\* ---------------------------------------------------------------- inputs

\* tool names and tool-list entries
tEx == <<"e", "x">>
tExU == <<"e", "x", "_">>
tExS == <<"e", "x", "_", "s">>
tExPat == <<"e", "x", "_", "*">>
tRd == <<"r", "d">>
tGrp == <<"@", "g">>
tGrpPat == <<"@", "g", "_", "*">>
tGrpPatX == <<"@", "g", "_", "x">>
tUndef == <<"@", "u">>
tProto == <<"@">> \o ProtoNameStr

ToolNames == {tEx, tExU, tExS, tExPat, tRd, tGrpPatX, <<>>}

RoleNameAt == <<"admin", "guest", "tg", "web">>
RoleNames == {"admin", "guest", "tg", ProtoName}

RawRole(name, users, tools, channels) ==
    [name |-> name, users |-> users, tools |-> tools, channels |-> channels]

\* role entries in iteration order: entry i is named RoleNameAt[i] and takes
\* its fields from the given option set
RoleSeqs(options) ==
    UNION {[1..n -> options] : n \in 1..MaxRoles}

NamedRoles(fields) ==
    [i \in 1..Len(fields) |->
        RawRole(RoleNameAt[i], fields[i].users, fields[i].tools, fields[i].channels)]

Document(roles, defaultRole, toolGroups, failSafe, rateLimit, systemCommands) ==
    [roles |-> roles, defaultRole |-> defaultRole, toolGroups |-> toolGroups,
     failSafe |-> failSafe, rateLimit |-> rateLimit,
     systemCommands |-> systemCommands, logBlocked |-> None, logAllowed |-> None]

ToolOptions ==
    {RawWild, RawList(<<>>), RawList(<<tEx>>), RawList(<<tExPat>>),
     RawList(<<tGrp, tExPat>>), RawList(<<tGrpPat>>), RawList(<<tProto>>),
     RawList(<<tUndef>>), RawList(<<tEx, tProto>>)}

GroupOptions ==
    {None,
     Some(<<[name |-> <<"g">>, tools |-> RawList(<<tRd, tExU>>)]>>),
     Some(<<[name |-> <<"g", "_", "*">>, tools |-> RawList(<<tRd>>)],
            [name |-> <<"g">>, tools |-> RawList(<<>>)]>>)}

DefaultOptions == {None, Some("admin"), Some(ProtoName)}

\* documents that vary the tool lists and the tool groups
ToolDocs ==
    {Document(Some(NamedRoles(f)), d, g, "absent", None, None) :
        f \in RoleSeqs({[users |-> RawWild, tools |-> t, channels |-> Absent] :
                           t \in ToolOptions}),
        d \in DefaultOptions, g \in GroupOptions}

\* documents that vary the user lists and the channel lists
RoleDocs ==
    {Document(Some(NamedRoles(f)), d, None, "absent", None, None) :
        f \in RoleSeqs({[users |-> u, tools |-> RawList(<<tEx>>), channels |-> c] :
                           u \in {RawWild, RawList(<<"p1">>), RawList(<<"p1", "p2">>)},
                           c \in {Absent, RawList(<<>>), RawList(<<"tg">>)}}),
        d \in DefaultOptions}

PeerIds == {"p1", "p2", "p3"}
Channels == {None, Some("tg"), Some("max")}

\* --------------------------------------------------------------- actions

NoHist ==
    [ticks |-> 0, calls |-> 0, logged |-> <<>>, owed |-> {}, latest |-> None,
     inflight |-> [c \in {"A", "B"} |-> None]]

InitWith(docs) ==
    /\ doc \in docs
    /\ loaded = None
    /\ now = 0
    /\ pendingBlock = None
    /\ peers = <<>>
    /\ last = [op |-> "none"]
    /\ hist = NoHist

\* register(api): parse the document; on failure log and register nothing
\* mutant: an invalid document is replaced by a built-in policy
RegisterFallsBack ==
    /\ loaded = None
    /\ loaded' = Some(IF parse(doc).ok THEN parse(doc)
                      ELSE parse([doc EXCEPT !.failSafe = "absent",
                                             !.systemCommands = None]))
    /\ last' = [op |-> "register", error |-> FALSE]
    /\ UNCHANGED <<doc, now, pendingBlock, peers, hist>>

Register ==
    /\ loaded = None
    /\ loaded' = Some(parse(doc))
    /\ last' = [op |-> "register", error |-> ~parse(doc).ok]
    /\ UNCHANGED <<doc, now, pendingBlock, peers, hist>>

CallCheckToolAccess ==
    /\ Running
    /\ \E t \in ToolNames, r \in RoleNames :
          last' = [op |-> "checkToolAccess", toolName |-> t, roleName |-> r,
                   result |-> checkToolAccess(t, r, Config)]
    /\ UNCHANGED <<doc, loaded, now, pendingBlock, peers, hist>>

CallResolveRole ==
    /\ Running
    /\ \E p \in PeerIds, c \in Channels :
          last' = [op |-> "resolveRole", peerId |-> p, channel |-> c,
                   result |-> resolveRole(p, c, Config)]
    /\ UNCHANGED <<doc, loaded, now, pendingBlock, peers, hist>>

InitGuard == InitWith(ToolDocs \cup RoleDocs)
NextGuard == Register \/ CallCheckToolAccess \/ CallResolveRole
SpecGuard == InitGuard /\ [][NextGuard]_vars

\* session keys, as token sequences
RECURSIVE Join(_)
Join(segments) ==
    IF Len(segments) = 0 THEN <<>>
    ELSE (IF Head(segments) = "" THEN <<>> ELSE <<Head(segments)>>)
         \o (IF Len(segments) = 1 THEN <<>> ELSE <<":">> \o Join(Tail(segments)))

keyMain == Join(<<"agent", "main", "main">>)
HookKeys ==
    {None, Some(<<>>), Some(keyMain),
     Some(Join(<<"agent", "main", "direct", "p1">>)),
     Some(Join(<<"agent", "main", "tg", "direct", "p2">>)),
     Some(Join(<<"agent", "main", "tg", "group", "p2">>)),
     Some(Join(<<"agent", "main", "tg", "direct", "">>)),
     Some(Join(<<"agent", "main", "tg", "sub", "p1">>))}

\* admin p1 with every tool, then a catch-all guest with one tool
BaseRoles ==
    <<RawRole("admin", RawList(<<"p1">>), RawWild, Absent),
      RawRole("guest", RawWild, RawList(<<tEx>>), Absent)>>

HookDocs ==
    {Document(Some(BaseRoles), None, None, f, r, None) :
        f \in {"absent", "deny", "allow"}, r \in {None, Some(1)}}
      \cup {Document(Some(BaseRoles), None, None, "maybe", None, None),
            Document(Some(BaseRoles), None, None, "deny", Some(0), None),
            [Document(Some(BaseRoles), None, None, "allow", Some(2), None)
               EXCEPT !.logBlocked = Some(FALSE)]}

LimiterDocs ==
    {Document(Some(BaseRoles), None, None, "absent", Some(n), None) : n \in {1, 2, 3}}

\* the host delivers a tool call
ToolCall(keys) ==
    /\ Running
    /\ hist.calls < MaxCalls
    /\ \E t \in {tEx, tRd}, k \in keys :
          LET r == beforeToolCall(t, k, Config, peers, now)
          IN  /\ peers' = r.peers
              /\ last' = [op |-> "before_tool_call", toolName |-> t, sessionKey |-> k,
                          outcome |-> r.outcome, verdict |-> r.verdict, logs |-> r.logs]
    /\ hist' = [hist EXCEPT !.calls = @ + 1]
    /\ UNCHANGED <<doc, loaded, now, pendingBlock>>

BeforeToolCall == ToolCall(HookKeys)

\* time passes between two events of the rate limiter
LimiterSteps == {1, WINDOW_MS - 1, WINDOW_MS}
TickLimiter ==
    /\ hist.ticks < MaxTicks
    /\ \E d \in LimiterSteps : now' = now + d
    /\ hist' = [hist EXCEPT !.ticks = @ + 1]
    /\ last' = [op |-> "tick"]
    /\ UNCHANGED <<doc, loaded, pendingBlock, peers>>

\* rateLimiter.shouldLog(p); hist.logged keeps, per peer, the times of the
\* calls that returned true
CallShouldLog ==
    /\ Running /\ Config.rateLimit # None
    /\ hist.calls < MaxCalls
    /\ \E p \in {"p1", "p2"} :
          LET r == shouldLog(peers, p, now, Config.rateLimit[1])
          IN  /\ peers' = r.peers
              /\ last' = [op |-> "shouldLog", peerId |-> p, result |-> r.result]
              /\ hist' = [hist EXCEPT
                            !.calls = @ + 1,
                            !.logged = IF r.result
                                       THEN Append(@, [peerId |-> p, at |-> now])
                                       ELSE @]
    /\ UNCHANGED <<doc, loaded, now, pendingBlock>>

CallGetSuppressed ==
    /\ Running /\ Config.rateLimit # None
    /\ \E p \in {"p1", "p2"} :
          last' = [op |-> "getSuppressed", peerId |-> p,
                   result |-> getSuppressed(peers, p, now)]
    /\ UNCHANGED <<doc, loaded, now, pendingBlock, peers, hist>>

InitHook == InitWith(HookDocs)
NextHook == Register \/ BeforeToolCall \/ TickLimiter
SpecHook == InitHook /\ [][NextHook]_vars

InitLimiter == InitWith(LimiterDocs)
NextLimiter == Register \/ CallShouldLog \/ CallGetSuppressed \/ TickLimiter
SpecLimiter == InitLimiter /\ [][NextLimiter]_vars

\* commands and message contents
cmdSt == <<"/", "s", "t">>
cmdOk == <<"/", "o", "k">>

Contents ==
    {None, Some(<<>>), Some(<<"h", "i">>), Some(cmdSt), Some(cmdHelp), Some(cmdOk),
     Some(<<" ", "/", "S", "T", " ", "x">>), Some(cmdSt \o <<"x">>),
     Some(cmdSt \o <<"\t", "x">>), Some(<<"/", "H", "E", "L", "P", "\n">>)}

Senders == {None, Some(""), Some("p1"), Some("p2"), Some("p3")}

SysCmd(mode, blocked, allowed, guestHelp) ==
    Some([mode |-> mode, blocked |-> blocked, allowed |-> allowed,
          guestHelp |-> guestHelp, blockResponse |-> Some("blockResponse")])

SysCmdOptions ==
    {SysCmd("absent", RawList(<<cmdSt, <<"H", "e", "l", "p", " ">>>>), Absent, None),
     SysCmd("blocklist", RawList(<<<<"s", "t">>>>), Absent, Some("guestHelp")),
     SysCmd("allowlist", Absent, RawList(<<cmdOk, cmdHelp>>), Some("guestHelp")),
     SysCmd("allowlist", Absent, RawList(<<>>), None)}

\* admin p1 everywhere, admin p2 on channel tg only, then a catch-all guest
CmdRoles ==
    <<RawRole("admin", RawList(<<"p1">>), RawWild, Absent),
      RawRole("tg", RawList(<<"p2">>), RawWild, RawList(<<"tg">>)),
      RawRole("guest", RawWild, RawList(<<tEx>>), Absent)>>

CmdDocs ==
    {Document(Some(CmdRoles), None, None, "absent", None, sc) : sc \in SysCmdOptions}
      \cup {Document(Some(CmdRoles), None, None, "absent", None, None),
            Document(Some(SubSeq(CmdRoles, 1, 2)), Some(ProtoName), None, "absent", None,
                     SysCmd("allowlist", Absent, RawList(<<cmdOk>>), None))}

GuardOn == Running /\ Config.systemCommands # None

\* the host delivers message_received for a message of conversation conv
Received(conv, contents, senders, channels) ==
    /\ GuardOn
    /\ \E content \in contents, from \in senders, channelId \in channels :
          LET command == commandToBlock(content, from, channelId, Config)
          IN  /\ pendingBlock' = messageReceived(content, from, channelId, Config,
                                                 pendingBlock, now)
              /\ last' = [op |-> "message_received", content |-> content, from |-> from,
                          channelId |-> channelId, armed |-> command,
                          before |-> pendingBlock]
              /\ hist' = [hist EXCEPT
                            !.owed = IF command = None THEN @
                                     ELSE @ \cup {[command |-> command[1], at |-> now]},
                            !.latest = IF command = None THEN @
                                       ELSE Some([command |-> command[1], at |-> now]),
                            !.inflight[conv] = Some([armed |-> command # None])]
    /\ UNCHANGED <<doc, loaded, now, peers>>

\* the host delivers message_sending for the reply of conversation conv
Sending(conv) ==
    /\ GuardOn
    /\ LET r == messageSending(Config, pendingBlock, now)
       IN  /\ pendingBlock' = r.pendingBlock
           /\ last' = [op |-> "message_sending", command |-> r.command,
                       result |-> r.result, owed |-> hist.owed, latest |-> hist.latest,
                       armedBySame |-> hist.inflight[conv] # None
                                       /\ hist.inflight[conv][1].armed]
    /\ hist' = [hist EXCEPT !.owed = {}, !.latest = None, !.inflight[conv] = None]
    /\ UNCHANGED <<doc, loaded, now, peers>>

\* time passes between two events of the command guard
CmdSteps == {1, STALE_MS}
TickCmd ==
    /\ hist.ticks < MaxTicks
    /\ \E d \in CmdSteps : now' = now + d
    /\ hist' = [hist EXCEPT !.ticks = @ + 1]
    /\ last' = [op |-> "tick"]
    /\ UNCHANGED <<doc, loaded, pendingBlock, peers>>

\* any sequence of message_received and message_sending events, with at most
\* MaxPending commands armed between two message_sending events
MessageReceived ==
    /\ Cardinality(hist.owed) < MaxPending
    /\ Received("A", {Some(<<"h", "i">>), Some(cmdSt), Some(cmdHelp)},
                {Some("p1"), Some("p3")}, {None})
MessageSending == Sending("A")

InitCmd == InitWith(CmdDocs)
NextCmd == Register \/ MessageReceived \/ MessageSending \/ TickCmd
SpecCmd == InitCmd /\ [][NextCmd]_vars

\* message_received on every content, sender and channel of the model
ReceiveAny == Received("A", Contents, Senders \ {Some("p3")}, {None, Some("tg")})

InitRecv == InitWith(CmdDocs)
NextRecv == Register \/ ReceiveAny \/ MessageSending
SpecRecv == InitRecv /\ [][NextRecv]_vars

\* The host's ordering: the events of one conversation arrive serially,
\* message_received before the message_sending of its reply, which the host
\* may drop; the conversations interleave.
HostReceives ==
    \E conv \in {"A", "B"} :
       /\ hist.inflight[conv] = None
       /\ Received(conv, {Some(cmdSt), Some(<<"h", "i">>)}, {Some("p1"), Some("p3")},
                   {None})

HostSends ==
    \E conv \in {"A", "B"} : hist.inflight[conv] # None /\ Sending(conv)

HostDrops ==
    /\ GuardOn
    /\ \E conv \in {"A", "B"} :
          /\ hist.inflight[conv] # None
          /\ hist' = [hist EXCEPT !.inflight[conv] = None]
    /\ last' = [op |-> "dropped"]
    /\ UNCHANGED <<doc, loaded, now, pendingBlock, peers>>

InitConv == InitWith(CmdDocs)
NextConv == Register \/ HostReceives \/ HostSends \/ HostDrops \/ TickCmd
SpecConv == InitConv /\ [][NextConv]_vars

\* message contents and command lists for the command matcher alone
MatchContents ==
    {<<>>, <<"h", "i">>, <<"s", "t">>, <<"/">>, cmdSt, cmdHelp, cmdOk,
     <<" ", "/", "S", "T", " ", "x">>, cmdSt \o <<"x">>, cmdSt \o <<"\t", "x">>,
     cmdSt \o <<"\n", "x">>, <<"/", "H", "E", "L", "P", "\n">>,
     cmdHelp \o <<" ", "x">>, cmdHelp \o <<"\t", "x">>, cmdHelp \o <<"x">>,
     cmdOk \o <<" ", "x">>, cmdOk \o <<"\t", "x">>, <<"\t", "/", "o", "k", " ">>}

MatchSysCmds ==
    SysCmdOptions
      \cup {SysCmd("blocklist", RawList(<<cmdSt, cmdHelp>>), RawList(<<cmdHelp>>),
                   Some("guestHelp")),
            SysCmd("blocklist", RawList(<<<<>>, <<" ", "/", "S", "t", " ">>>>), Absent, None),
            SysCmd("allowlist", RawList(<<<<"X">>>>), RawList(<<cmdHelp, <<"s", "T">>>>), None),
            SysCmd("allowlist", Absent, RawList(<<<<"\t", "O", "k">>>>), None),
            SysCmd("allowlist", Absent, RawList(<<>>), Some("guestHelp")),
            SysCmd("blocklist", RawList(<<>>), Absent, None),
            SysCmd("allowlist", Absent, Absent, None)}

MatchDocs ==
    {Document(Some(BaseRoles), None, None, "absent", None, sc) : sc \in MatchSysCmds}

CallMatchBlockedCommand ==
    /\ GuardOn
    /\ \E content \in MatchContents :
          last' = [op |-> "matchBlockedCommand", content |-> content,
                   result |-> matchBlockedCommand(content, Config.systemCommands[1])]
    /\ UNCHANGED <<doc, loaded, now, pendingBlock, peers, hist>>

CallGetBlockResponse ==
    /\ GuardOn
    /\ \E command \in {cmdHelp, cmdSt, cmdHelp \o <<"x">>} :
          last' = [op |-> "getBlockResponse", command |-> command,
                   result |-> getBlockResponse(command, Config.systemCommands[1])]
    /\ UNCHANGED <<doc, loaded, now, pendingBlock, peers, hist>>

InitMatch == InitWith(MatchDocs)
NextMatch == Register \/ CallMatchBlockedCommand \/ CallGetBlockResponse
SpecMatch == InitMatch /\ [][NextMatch]_vars

\* the three hooks together: tool calls, messages and replies in any order
EventKeys ==
    {Some(keyMain),
     Some(Join(<<"agent", "main", "direct", "p1">>)),
     Some(Join(<<"agent", "main", "tg", "direct", "p2">>))}

EventSysCmd == SysCmd("blocklist", RawList(<<cmdSt>>), Absent, Some("guestHelp"))

EventDocs ==
    {Document(Some(BaseRoles), None, None, "deny", Some(1), EventSysCmd),
     [Document(Some(BaseRoles), None, None, "deny", Some(1), EventSysCmd)
        EXCEPT !.logBlocked = Some(FALSE), !.logAllowed = Some(TRUE)],
     Document(Some(BaseRoles), None, None, "allow", None, None),
     Document(Some(BaseRoles), None, None, "maybe", Some(1), EventSysCmd),
     Document(Some(BaseRoles), None, None, "deny", Some(1),
              SysCmd("blocklist", Absent, Absent, None))}

\* mutant: the expansion is written back into the resolved role's tool list
EventToolCallWritesBack ==
    /\ Running
    /\ hist.calls < MaxCalls
    /\ \E t \in {tEx, tRd}, k \in EventKeys :
          LET r == beforeToolCall(t, k, Config, peers, now)
          IN  /\ peers' = r.peers
              /\ last' = [op |-> "before_tool_call", toolName |-> t, sessionKey |-> k,
                          outcome |-> r.outcome, verdict |-> r.verdict, logs |-> r.logs]
              /\ loaded' = [loaded EXCEPT
                              ![1].config.roles[Len(Config.roles)].tools.list =
                                 IF Len(@) < 2 THEN Append(@, t) ELSE @]
    /\ hist' = [hist EXCEPT !.calls = @ + 1]
    /\ UNCHANGED <<doc, now, pendingBlock>>

EventToolCall == ToolCall(EventKeys)

EventReceived ==
    /\ Cardinality(hist.owed) < MaxPending
    /\ Received("A", {Some(<<"h", "i">>), Some(cmdSt)}, {Some("p1"), Some("p3")}, {None})

\* a rate-limit window, and with it the life of a pending block, passes
EventTick ==
    /\ hist.ticks < MaxTicks
    /\ now' = now + WINDOW_MS
    /\ hist' = [hist EXCEPT !.ticks = @ + 1]
    /\ last' = [op |-> "tick"]
    /\ UNCHANGED <<doc, loaded, pendingBlock, peers>>

InitEvents == InitWith(EventDocs)
NextEvents == Register \/ EventToolCall \/ EventReceived \/ MessageSending \/ EventTick
SpecEvents == InitEvents /\ [][NextEvents]_vars

\* documents that break several validation rules at once
LoadRoles ==
    {None, Some(<<>>),
     Some(<<RawRole("guest", Bad, RawWild, Absent)>>),
     Some(<<RawRole("guest", RawWild, RawList(<<tEx>>), Bad)>>),
     Some(<<RawRole("guest", RawWild, RawList(<<tEx>>), Absent),
            RawRole("admin", RawList(<<"p1">>), RawWild, Absent)>>),
     Some(<<RawRole("admin", RawList(<<"p1">>), RawWild, Absent),
            RawRole("guest", RawWild, RawList(<<tEx, tUndef>>), Absent)>>),
     Some(<<RawRole("admin", RawList(<<"p1">>), RawWild, RawList(<<>>)),
            RawRole("guest", RawWild, RawList(<<>>), Absent)>>),
     Some(BaseRoles)}

LoadDocs ==
    {Document(r, d, g, f, l, sc) :
        r \in LoadRoles,
        d \in {None, Some("nobody"), Some(ProtoName)},
        g \in {None, Some(<<[name |-> <<"g">>, tools |-> Bad]>>)},
        f \in {"absent", "maybe"},
        l \in {None, Some(0)},
        sc \in {None, SysCmd("blocklist", Absent, Absent, None)}}

InitLoad == InitWith(LoadDocs)
NextLoad == Register
SpecLoad == InitLoad /\ [][NextLoad]_vars

\* ------------------------------------------------------ Telegram menu
\* normalizeTelegramCommandName: trim, drop one leading "/", lowercase
normalizeTelegramCommandName(name) ==
    LET trimmed == Trim(name)
        bare == IF StartsWith(trimmed, <<"/">>) THEN Tail(trimmed) ELSE trimmed
    IN  ToLowerCase(Trim(bare))

\* TELEGRAM_COMMAND_NAME_PATTERN: 1 to 32 of a-z, 0-9 and underscore
PatternChars == {"a", "h", "s", "t", "0", "_"}
TELEGRAM_COMMAND_NAME_PATTERN(name) ==
    /\ Len(name) \in 1..32
    /\ \A i \in 1..Len(name) : name[i] \in PatternChars

MenuIssue(kind, name) == [kind |-> kind, name |-> name]

\* mutant: the names added in this pass are not remembered
MenuStepForgetsPass(st, spec) ==
    LET normalized == normalizeTelegramCommandName(spec.name)
        description == Trim(spec.description)
    IN  IF normalized = <<>> \/ ~TELEGRAM_COMMAND_NAME_PATTERN(normalized)
        THEN [st EXCEPT !.issues = Append(@, MenuIssue("invalid", spec.name))]
        ELSE IF description = <<>>
        THEN [st EXCEPT !.issues = Append(@, MenuIssue("no description", normalized))]
        ELSE IF normalized \in st.existingCommands
        THEN [st EXCEPT !.issues = Append(@, MenuIssue("conflict", normalized))]
        ELSE [st EXCEPT !.existingCommands = @ \cup {normalized},
                        !.commands = Append(@, [command |-> normalized,
                                                description |-> description])]

\* one iteration of the loop over the specs
MenuStep(st, spec) ==
    LET normalized == normalizeTelegramCommandName(spec.name)
        description == Trim(spec.description)
    IN  IF normalized = <<>> \/ ~TELEGRAM_COMMAND_NAME_PATTERN(normalized)
        THEN [st EXCEPT !.issues = Append(@, MenuIssue("invalid", spec.name))]
        ELSE IF description = <<>>
        THEN [st EXCEPT !.issues = Append(@, MenuIssue("no description", normalized))]
        ELSE IF normalized \in st.existingCommands
        THEN IF normalized \in st.pluginCommandNames
             THEN [st EXCEPT !.issues = Append(@, MenuIssue("duplicate", normalized))]
             ELSE [st EXCEPT !.issues = Append(@, MenuIssue("conflict", normalized))]
        ELSE [st EXCEPT !.pluginCommandNames = @ \cup {normalized},
                        !.existingCommands = @ \cup {normalized},
                        !.commands = Append(@, [command |-> normalized,
                                                description |-> description])]

RECURSIVE buildFrom(_, _, _)
buildFrom(specs, i, st) ==
    IF i > Len(specs) THEN st
    ELSE buildFrom(specs, i + 1, MenuStep(st, specs[i]))

\* returns commands and issues, and the existingCommands set it has mutated
buildPluginTelegramMenuCommands(specs, existingCommands) ==
    buildFrom(specs, 1, [commands |-> <<>>, issues |-> <<>>,
                         pluginCommandNames |-> {},
                         existingCommands |-> existingCommands])

MenuNames ==
    {<<"s", "t">>, <<"/", "S", "t">>, <<" ", "h", " ">>, <<"s", "-">>, <<"/">>,
     [i \in 1..33 |-> "a"]}
MenuDescriptions == {<<"d">>, <<" ">>}
MenuSpecs == [name : MenuNames, description : MenuDescriptions]
MenuExisting == {{}, {<<"s", "t">>}, {<<"h">>, <<"a">>}}

CallBuildMenu ==
    /\ last.op = "none"
    /\ last' = [op |-> "buildPluginTelegramMenuCommands",
                result |-> buildPluginTelegramMenuCommands(doc.specs,
                                                           doc.existingCommands)]
    /\ UNCHANGED <<doc, loaded, now, pendingBlock, peers, hist>>

InitMenu ==
    InitWith({[specs |-> sp, existingCommands |-> ex] :
                 sp \in UNION {[1..n -> MenuSpecs] : n \in 0..MaxSpecs},
                 ex \in MenuExisting})
NextMenu == CallBuildMenu
SpecMenu == InitMenu /\ [][NextMenu]_vars

\* ------------------------------------------------- Telegram menu sync
\* withTelegramApiErrorLogging logs a failure of fn and rejects with it
withTelegramApiErrorLogging(failed) == failed

DefaultScope == 0
ApiCall(api, scope, failed) == [api |-> api, scope |-> scope, failed |-> failed]

SyncAt(pc) == last.op = "sync" /\ last.pc = pc
SyncKeeps == UNCHANGED <<doc, loaded, now, pendingBlock, peers, hist>>

\* syncTelegramMenuCommands starts sync() and returns to its caller
SyncStart ==
    /\ last.op = "none"
    /\ last' = [op |-> "sync", pc |-> "deleteDefault", calls |-> <<>>,
                chat |-> 1, summary |-> FALSE]
    /\ SyncKeeps

\* deleteMyCommands() on the default scope; its failure is caught
SyncDeleteDefault ==
    /\ SyncAt("deleteDefault")
    /\ \E failed \in BOOLEAN :
          last' = [last EXCEPT
                     !.calls = IF doc.hasDelete
                               THEN Append(@, ApiCall("deleteMyCommands",
                                                      DefaultScope, failed))
                               ELSE @,
                     !.pc = IF doc.rbacScoping = None THEN "setAll" ELSE "setGuest"]
    /\ SyncKeeps

\* without rbacScoping: setMyCommands(commandsToRegister), then return
SyncSetAll ==
    /\ SyncAt("setAll")
    /\ \E failed \in BOOLEAN :
          last' = IF doc.commandsToRegister = <<>>
                  THEN [last EXCEPT !.pc = "resolved"]
                  ELSE [last EXCEPT
                          !.calls = Append(@, ApiCall("setMyCommands",
                                                      DefaultScope, failed)),
                          !.pc = IF withTelegramApiErrorLogging(failed)
                                 THEN "rejected" ELSE "resolved"]
    /\ SyncKeeps

\* setMyCommands(guestCommands) on the default scope
SyncSetGuest ==
    /\ SyncAt("setGuest")
    /\ \E failed \in BOOLEAN :
          last' = IF doc.rbacScoping[1].guestCommands = <<>>
                  THEN [last EXCEPT !.pc = "deleteChat"]
                  ELSE [last EXCEPT
                          !.calls = Append(@, ApiCall("setMyCommands",
                                                      DefaultScope, failed)),
                          !.pc = IF withTelegramApiErrorLogging(failed)
                                 THEN "rejected" ELSE "deleteChat"]
    /\ SyncKeeps

\* deleteMyCommands on the next admin chat; its failure is caught
SyncDeleteChat ==
    /\ SyncAt("deleteChat")
    /\ last.chat <= Len(doc.rbacScoping[1].adminChatIds)
    /\ \E failed \in BOOLEAN :
          last' = [last EXCEPT
                     !.calls = Append(@, ApiCall("deleteMyCommands",
                                  doc.rbacScoping[1].adminChatIds[last.chat],
                                  failed)),
                     !.pc = "setChat"]
    /\ SyncKeeps

\* setMyCommands(commandsToRegister) on that admin chat
SyncSetChat ==
    /\ SyncAt("setChat")
    /\ \E failed \in BOOLEAN :
          last' = IF doc.commandsToRegister = <<>>
                  THEN [last EXCEPT !.chat = @ + 1, !.pc = "deleteChat"]
                  ELSE [last EXCEPT
                          !.calls = Append(@, ApiCall("setMyCommands",
                                       doc.rbacScoping[1].adminChatIds[last.chat],
                                       failed)),
                          !.chat = IF withTelegramApiErrorLogging(failed)
                                   THEN @ ELSE @ + 1,
                          !.pc = IF withTelegramApiErrorLogging(failed)
                                 THEN "rejected" ELSE "deleteChat"]
    /\ SyncKeeps

\* after the loop: the one-line summary
SyncSummary ==
    /\ SyncAt("deleteChat")
    /\ last.chat > Len(doc.rbacScoping[1].adminChatIds)
    /\ last' = [last EXCEPT !.summary = TRUE, !.pc = "resolved"]
    /\ SyncKeeps

\* void sync().catch(() => {}): a rejection of sync() is dropped
SyncCatch ==
    /\ SyncAt("rejected")
    /\ last' = [last EXCEPT !.pc = "caught"]
    /\ SyncKeeps

ChatIds == {1, 2, 3}
ChatLists ==
    {ids \in UNION {[1..n -> ChatIds] : n \in 0..MaxChats} :
        \A i, j \in 1..Len(ids) : i < j => ids[i] < ids[j]}
SyncInputs ==
    {[commandsToRegister |-> c, rbacScoping |-> r, hasDelete |-> h] :
        c \in {<<>>, <<"st", "h">>},
        r \in {None} \cup {Some([adminChatIds |-> ids, guestCommands |-> g]) :
                              ids \in ChatLists, g \in {<<>>, <<"h">>}},
        h \in BOOLEAN}

InitSync == InitWith(SyncInputs)
NextSync ==
    \/ SyncStart \/ SyncDeleteDefault \/ SyncSetAll \/ SyncSetGuest
    \/ SyncDeleteChat \/ SyncSetChat \/ SyncSummary \/ SyncCatch
SpecSync == InitSync /\ [][NextSync]_vars

\* --------------------------------------------------- native command guard
RbacCommandCheck(isAdmin, blocked, response) ==
    [isAdmin |-> isAdmin, blocked |-> blocked, response |-> response]

\* rbacConfig.roles.admin?.users of the raw document
AdminUsers(rolesRaw) ==
    IF \E i \in 1..Len(rolesRaw) : rolesRaw[i].name = "admin"
    THEN rolesRaw[CHOOSE i \in 1..Len(rolesRaw) : rolesRaw[i].name = "admin"].users
    ELSE Absent

\* cfg is the raw policy document, read without the loader
checkRbacCommand(cfg, senderId, command) ==
    IF cfg.roles = None THEN RbacCommandCheck(TRUE, FALSE, None)
    ELSE LET adminUsers == AdminUsers(cfg.roles[1])
             isAdmin == adminUsers.t = "list" /\ Includes(adminUsers.list, senderId)
         IN  IF isAdmin THEN RbacCommandCheck(TRUE, FALSE, None)
             ELSE IF cfg.systemCommands = None
             THEN RbacCommandCheck(FALSE, FALSE, None)
             ELSE LET sysCmds == cfg.systemCommands[1]
                      cmdLower == ToLowerCase(command)
                      listed ==
                          IF sysCmds.mode = "allowlist"
                          THEN ~(/\ sysCmds.allowed.t = "list"
                                 /\ Includes(sysCmds.allowed.list, cmdLower))
                          ELSE /\ sysCmds.blocked.t = "list"
                               /\ Includes(sysCmds.blocked.list, cmdLower)
                      help == cmdLower = cmdHelp /\ sysCmds.guestHelp # None
                  IN  IF ~(listed \/ help)
                      THEN RbacCommandCheck(FALSE, FALSE, None)
                      ELSE RbacCommandCheck(FALSE, TRUE,
                             Some(IF help THEN sysCmds.guestHelp[1]
                                  ELSE IF sysCmds.blockResponse = None
                                  THEN "Command not available."
                                  ELSE sysCmds.blockResponse[1]))

\* admin p1 and a catch-all guest; the same with the admin role named boss
NativeRoles ==
    {None,
     Some(CmdRoles),
     Some(<<RawRole("admin", RawList(<<"p1">>), RawWild, Absent),
            RawRole("guest", RawWild, RawList(<<tEx>>), Absent)>>),
     Some(<<RawRole("boss", RawList(<<"p1">>), RawWild, Absent),
            RawRole("guest", RawWild, RawList(<<tEx>>), Absent)>>),
     Some(<<RawRole("guest", RawList(<<"p3">>), RawList(<<tEx>>), Absent),
            RawRole("admin", RawWild, RawWild, Absent)>>)}

NativeDocs ==
    {Document(r, None, None, "absent", None, sc) :
        r \in NativeRoles,
        sc \in SysCmdOptions \cup
               {None, SysCmd("blocklist", RawList(<<cmdSt>>), Absent, Some("guestHelp"))}}

NativeCommands == {cmdSt, <<"/", "S", "T">>, cmdHelp, cmdOk}

CallCheckRbacCommand ==
    /\ last.op = "none"
    /\ \E senderId \in PeerIds, command \in NativeCommands :
          last' = [op |-> "checkRbacCommand", senderId |-> senderId,
                   command |-> command,
                   result |-> checkRbacCommand(doc, senderId, command)]
    /\ UNCHANGED <<doc, loaded, now, pendingBlock, peers, hist>>

InitNative == InitWith(NativeDocs)
NextNative == CallCheckRbacCommand
SpecNative == InitNative /\ [][NextNative]_vars

\* session keys agent:<segment>:...:<segment> of at most MaxSegs segments
KeySegs == {"", "direct", "channel", "tg", "p1"}
KeyParts == {<<"agent">> \o s : s \in UNION {[1..n -> KeySegs] : n \in 0..(MaxSegs - 1)}}

\* one call per run: the function keeps no state between calls
CallParseSessionKey ==
    /\ last.op = "none"
    /\ \E parts \in KeyParts :
          last' = [op |-> "parseSessionKey", parts |-> parts,
                   result |-> parseSessionKey(Join(parts))]
    /\ UNCHANGED <<doc, loaded, now, pendingBlock, peers, hist>>

InitKey == InitWith({Document(Some(BaseRoles), None, None, "absent", None, None)})
NextKey == CallParseSessionKey
SpecKey == InitKey /\ [][NextKey]_vars

\* ============================================================ properties

Keys(roles) == {roles[i].name : i \in 1..Len(roles)}
RoleOf(roles, r) == roles[CHOOSE i \in 1..Len(roles) : roles[i].name = r]
IsPattern(entry) == EndsWith(entry, <<"_", "*">>)
IsGroupRef(entry) == StartsWith(entry, <<"@">>) /\ ~IsPattern(entry)

\* the exact-expanded list of a role: its plain names plus the members of
\* every @group it references
ExactExpanded(role, toolGroups) ==
    {e \in Range(role.tools.list) : ~IsPattern(e) /\ ~StartsWith(e, <<"@">>)}
      \cup UNION {Range(toolGroups[k].tools) :
                    k \in {k \in 1..Len(toolGroups) :
                             \E e \in Range(role.tools.list) :
                                IsGroupRef(e)
                                /\ toolGroups[k].name = SubSeq(e, 2, Len(e))}}

PatternCovers(role, t) ==
    \E e \in Range(role.tools.list) :
       /\ IsPattern(e)
       /\ Len(t) > Len(e) - 1
       /\ \A k \in 1..(Len(e) - 1) : t[k] = e[k]

ShouldAllow(t, r, P) ==
    /\ r \in Keys(P.roles)
    /\ \/ RoleOf(P.roles, r).tools.wild
       \/ t \in ExactExpanded(RoleOf(P.roles, r), P.toolGroups)
       \/ PatternCovers(RoleOf(P.roles, r), t)

\* C1: for every loaded Policy P, tool t and role name r, checkToolAccess
\* returns allowed = true exactly when r is a key of P.roles and r's tools is
\* the wildcard, or t is in r's exact-expanded list, or t is strictly longer
\* than and starts with the prefix of one of r's _* patterns; otherwise it
\* returns allowed = false with reason Unknown role "r" when r is no role and
\* Role "r" does not have access to tool "t" otherwise.
C1_CheckToolAccessDecides ==
    last.op = "checkToolAccess" =>
        /\ last.result.outcome = "return"
        /\ last.result.allowed = ShouldAllow(last.toolName, last.roleName, Config)
        /\ ~last.result.allowed =>
              last.result.reason =
                 IF last.roleName \notin Keys(Config.roles)
                 THEN UnknownRole(last.roleName)
                 ELSE NoAccess(last.roleName, last.toolName)

\* no name of the call is a property inherited from Object.prototype
NoInheritedName ==
    /\ last.roleName # ProtoName
    /\ \A i \in 1..Len(Config.roles) : tProto \notin Range(Config.roles[i].tools.list)

\* the statement of C1 on the calls that look up own keys only
C1_OnOwnKeys ==
    (last.op = "checkToolAccess" /\ NoInheritedName) =>
        /\ last.result.outcome = "return"
        /\ last.result.allowed = ShouldAllow(last.toolName, last.roleName, Config)
        /\ ~last.result.allowed =>
              last.result.reason =
                 IF last.roleName \notin Keys(Config.roles)
                 THEN UnknownRole(last.roleName)
                 ELSE NoAccess(last.roleName, last.toolName)

UsersOk(role, p) == role.users.wild \/ p \in Range(role.users.list)
ChannelsOk(role, c) ==
    role.channels.wild \/ (c # None /\ c[1] \in Range(role.channels.list))
Matching(P, p, c) ==
    {i \in 1..Len(P.roles) : UsersOk(P.roles[i], p) /\ ChannelsOk(P.roles[i], c)}

\* C3: resolveRole(peerId, channel, P) returns the name of the first role, in
\* the order of P.roles, for which users match (wildcard or contains peerId)
\* and channels match (wildcard, or the channel is present and in the list; an
\* absent channel matches only wildcard channels); it returns P.defaultRole
\* when no role satisfies both.
C3_FirstMatchWins ==
    last.op = "resolveRole" =>
        LET m == Matching(Config, last.peerId, last.channel)
        IN  IF m = {} THEN last.result = Config.defaultRole
            ELSE last.result = Config.roles[CHOOSE i \in m : \A k \in m : i <= k].name

\* a later role wins because the first one matches the user but not the
\* absent channel
C3_Witness ==
    /\ last.op = "resolveRole"
    /\ last.channel = None
    /\ Len(Config.roles) >= 2
    /\ UsersOk(Config.roles[1], last.peerId)
    /\ ~Config.roles[1].channels.wild
    /\ 2 \in Matching(Config, last.peerId, last.channel)
    /\ last.result = Config.roles[2].name
    /\ last.result # Config.defaultRole

\* C10: load either raises or returns a Policy in which defaultRole ("guest"
\* when omitted) is a key of roles, no role with wildcard users precedes a
\* role with a specific user list, and every @group entry of a role's tool
\* list names a key of toolGroups.
C10_LoadedPolicyIsValid ==
    Running =>
        /\ Config.defaultRole = (IF doc.defaultRole = None THEN "guest"
                                 ELSE doc.defaultRole[1])
        /\ Config.defaultRole \in Keys(Config.roles)
        /\ \A i, j \in 1..Len(Config.roles) :
              i < j => ~(Config.roles[i].users.wild /\ ~Config.roles[j].users.wild)
        /\ \A i \in 1..Len(Config.roles) :
              \A e \in Range(Config.roles[i].tools.list) :
                 StartsWith(e, <<"@">>) =>
                    \E k \in 1..Len(Config.toolGroups) :
                       Config.toolGroups[k].name = SubSeq(e, 2, Len(e))

\* the statement of C10 on the documents that name no inherited property
C10_OnOwnKeys ==
    (Running /\ doc.defaultRole # Some(ProtoName)
       /\ \A i \in 1..Len(doc.roles[1]) : tProto \notin Range(doc.roles[1][i].tools.list))
    => C10_LoadedPolicyIsValid

\* the hook treats the key as missing: undefined, or the empty string
NoSessionKey(k) == k = None \/ k[1] = <<>>

C7_AtMostMaxPerWindow ==
    Running =>
        \A i \in 1..Len(hist.logged) :
            Cardinality({j \in 1..Len(hist.logged) :
                           /\ hist.logged[j].peerId = hist.logged[i].peerId
                           /\ hist.logged[j].at >= hist.logged[i].at
                           /\ hist.logged[j].at < hist.logged[i].at + WINDOW_MS})
              <= Config.rateLimit[1]

SysCmds == Config.systemCommands[1]

\* the role is missing, or its tools is not the wildcard
NotAdmin(roleName, P) ==
    roleName \notin Keys(P.roles) \/ ~RoleOf(P.roles, roleName).tools.wild

\* C4: in every sequence of message-received and message-sending events, a
\* message-received whose content matchBlockedCommand maps to c, from a
\* sender whose resolved role is not admin, arms the pending block with c, and
\* the next message-sending, no more than 10 s later, returns the body
\* getBlockResponse(c).
C4_NextReplyIsBlockResponse ==
    /\ (/\ last.op = "message_received"
        /\ last.content # None /\ last.from # None /\ last.from[1] # ""
        /\ matchBlockedCommand(last.content[1], SysCmds) # None
        /\ NotAdmin(resolveRole(last.from[1], last.channelId, Config), Config))
       => pendingBlock = Some([command |-> matchBlockedCommand(last.content[1], SysCmds)[1],
                               timestamp |-> now])
    /\ last.op = "message_sending" =>
          \A o \in last.owed :
             now - o.at <= STALE_MS =>
                last.result = Some(getBlockResponse(o.command, SysCmds))

\* C5: under the host's ordering, in every interleaving of the messages of
\* several conversations, dropped message-sending events included, a reply
\* is substituted only if the message it answers armed the pending block.
C5_OnlyArmingMessageIsSubstituted ==
    (last.op = "message_sending" /\ last.result # None) => last.armedBySame

\* C6 as stated: message-received calls setPendingBlock(command) if and only
\* if matchBlockedCommand(content) returns a command and the sender's resolved
\* role is not admin.
C6_ArmsIffMatchedAndNotAdmin ==
    (last.op = "message_received" /\ last.content # None /\ last.from # None) =>
        (last.armed # None
           <=> /\ matchBlockedCommand(last.content[1], SysCmds) # None
               /\ NotAdmin(resolveRole(last.from[1], last.channelId, Config), Config))

\* C6, amended: message-received calls setPendingBlock(command) if and only
\* if the event carries a content for which matchBlockedCommand returns that
\* command, it names a non-empty sender, and the sender's resolved role is not
\* admin (missing, or its tools is not the wildcard); otherwise, in particular
\* for a sender whose role has wildcard tools, the slot is left unchanged.
C6_ArmsIffMatchedSenderNotAdmin ==
    last.op = "message_received" =>
        LET named == last.content # None /\ last.from # None /\ last.from[1] # ""
            arms == /\ named
                    /\ matchBlockedCommand(last.content[1], SysCmds) # None
                    /\ NotAdmin(resolveRole(last.from[1], last.channelId, Config), Config)
        IN  /\ last.armed # None <=> arms
            /\ arms => /\ last.armed = matchBlockedCommand(last.content[1], SysCmds)
                       /\ pendingBlock = Some([command |-> last.armed[1], timestamp |-> now])
            /\ ~arms => pendingBlock = last.before

\* a non-admin sender's blocked command armed an empty slot
C6_Witness ==
    /\ last.op = "message_received"
    /\ last.armed # None
    /\ last.before = None
    /\ pendingBlock = Some([command |-> last.armed[1], timestamp |-> now])

\* C8: consumePendingBlock always leaves the slot empty; after
\* setPendingBlock(c) the next consume within 10 s returns c, and a consume
\* with no set since the previous one returns none; after several sets the
\* consume returns the command of the latest.
C8_ConsumeEmptiesAndReturnsLatest ==
    last.op = "message_sending" =>
        /\ pendingBlock = None
        /\ last.latest = None => last.command = None
        /\ (last.latest # None /\ now - last.latest[1].at <= STALE_MS)
              => last.command = Some(last.latest[1].command)

\* two different commands were set before the consume, which returned the
\* latest
C8_Witness ==
    /\ last.op = "message_sending"
    /\ \E o \in last.owed : o.command # last.latest[1].command
    /\ last.command = Some(last.latest[1].command)
    /\ pendingBlock = None

\* C9: a pending block whose age at consumption is greater than 10 s is never
\* returned: the consume returns none, substitutes nothing and still empties
\* the slot; a block of age at most 10 s is returned.
C9_StaleBlockIsDiscarded ==
    (last.op = "message_sending" /\ last.latest # None) =>
        IF now - last.latest[1].at > STALE_MS
        THEN last.command = None /\ last.result = None /\ pendingBlock = None
        ELSE last.command = Some(last.latest[1].command) /\ last.result # None

\* a block armed 10 001 ms before the consume was dropped
C9_Witness ==
    /\ last.op = "message_sending"
    /\ last.latest # None
    /\ now - last.latest[1].at = STALE_MS + 1
    /\ last.result = None
    /\ pendingBlock = None

\* C11: for every Policy P returned by the loader and every peer id and
\* channel, present or absent, resolveRole returns a name that is a key of
\* P.roles, so the tool guard called with it never answers Unknown role.
C11_ResolvedRoleIsKey ==
    last.op = "resolveRole" =>
        /\ last.result \in Keys(Config.roles)
        /\ checkToolAccess(tEx, last.result, Config).reason # UnknownRole(last.result)

\* the statement of C11 on the documents whose defaultRole is an own key
C11_OnOwnKeys ==
    (last.op = "resolveRole" /\ doc.defaultRole # Some(ProtoName)) =>
        /\ last.result \in Keys(Config.roles)
        /\ checkToolAccess(tEx, last.result, Config).reason # UnknownRole(last.result)

\* a _* pattern of the role whose prefix, with or without the underscore, is
\* the whole of t, and no pattern of the role that covers t
OnlyBarePrefix(role, t) ==
    /\ \E e \in Range(role.tools.list) :
          /\ IsPattern(e)
          /\ t \in {SubSeq(e, 1, Len(e) - 1), SubSeq(e, 1, Len(e) - 2)}
    /\ ~PatternCovers(role, t)

\* what C12 says of a call on a role of the Policy with a tool list
ExactThenPrefix(t, role, P, result) ==
    /\ t \in ExactExpanded(role, P.toolGroups) =>
          result.outcome = "return" /\ result.allowed
    /\ (t \notin ExactExpanded(role, P.toolGroups) /\ OnlyBarePrefix(role, t)) =>
          result.outcome = "return" /\ ~result.allowed

\* C12: for every Policy, role and tool t, the guard allows t when t appears
\* verbatim in the role's exact-expanded tool list, and denies t when t is
\* covered only by a _* pattern whose prefix equals the whole of t (ex_ and
\* ex against the pattern ex_*).
C12_ExactAllowedBarePrefixDenied ==
    (/\ last.op = "checkToolAccess"
     /\ last.roleName \in Keys(Config.roles)
     /\ ~RoleOf(Config.roles, last.roleName).tools.wild)
    => ExactThenPrefix(last.toolName, RoleOf(Config.roles, last.roleName), Config,
                       last.result)

\* the statement of C12 on the Policies that name no inherited property
C12_OnOwnKeys ==
    (/\ last.op = "checkToolAccess"
     /\ NoInheritedName
     /\ last.roleName \in Keys(Config.roles)
     /\ ~RoleOf(Config.roles, last.roleName).tools.wild)
    => ExactThenPrefix(last.toolName, RoleOf(Config.roles, last.roleName), Config,
                       last.result)

\* the bare prefix ex_ was denied to a role whose list holds only ex_*
C12_OnOwnKeysWitness ==
    /\ last.op = "checkToolAccess"
    /\ last.toolName = tExU
    /\ last.roleName \in Keys(Config.roles)
    /\ RoleOf(Config.roles, last.roleName).tools = List(<<tExPat>>)
    /\ ~last.result.allowed

\* the key has one of the shapes per-peer, per-channel-peer,
\* per-account-channel-peer, group or channel: four to six segments, a peer
\* kind in the last but one, a non-empty peer id in the last
HasShape(parts) ==
    /\ Len(parts) \in 4..6
    /\ parts[1] = "agent"
    /\ parts[Len(parts) - 1] \in {"direct", "group", "channel"}
    /\ parts[Len(parts)] # ""

\* C13 as stated: for every key of one of the shapes, whatever strings
\* occupy the agent, channel and account segments, parseSessionKey returns a
\* result whose peerId is the final segment.
C13_PeerIdIsFinalSegment ==
    (last.op = "parseSessionKey" /\ HasShape(last.parts)) =>
        /\ last.result # None
        /\ last.result[1].peerId = last.parts[Len(last.parts)]

\* C13, amended: for every key of one of the shapes in which no channel or
\* account segment is itself direct, group or channel, whatever string
\* occupies the agent id, parseSessionKey returns a result whose peerId is the
\* final segment.
C13_PeerIdIsFinalSegmentUnlessKindNamed ==
    (/\ last.op = "parseSessionKey"
     /\ HasShape(last.parts)
     /\ \A k \in 3..(Len(last.parts) - 2) :
           last.parts[k] \notin {"direct", "group", "channel"})
    => /\ last.result # None
       /\ last.result[1].peerId = last.parts[Len(last.parts)]

\* a per-account-channel-peer key whose agent id is the word direct
C13_Witness ==
    /\ last.op = "parseSessionKey"
    /\ last.parts = <<"agent", "direct", "tg", "tg", "direct", "p1">>
    /\ last.result # None
    /\ last.result[1].peerId = "p1"

\* the segments, 1-based, from the third to the last but one, that are a peer
\* kind
KindAt(parts) ==
    {i \in 3..(Len(parts) - 1) : parts[i] \in {"direct", "group", "channel"}}

Least(S) == CHOOSE i \in S : \A k \in S : i <= k

ParsedAt(parts, i) ==
    Some([peerId |-> parts[i + 1],
          channel |-> IF i >= 4 THEN Some(parts[3]) ELSE None,
          peerKind |-> parts[i]])

\* C14 as stated: none for every key with fewer than four segments and for
\* every key with no peer-kind segment at index 2 or later that is followed
\* by a non-empty segment; otherwise peerKind is the first such segment,
\* peerId the segment after it, channel the segment at index 2 when peerKind
\* sits at index 3 or later and absent when it sits at index 2.
C14_FirstKindFollowedByPeer ==
    last.op = "parseSessionKey" =>
        LET such == {i \in KindAt(last.parts) : last.parts[i + 1] # ""}
        IN  IF Len(last.parts) < 4 \/ such = {}
            THEN last.result = None
            ELSE last.result = ParsedAt(last.parts, Least(such))

\* C14, amended: none for every key with fewer than four segments, for every
\* key with no peer-kind segment between index 2 and the last but one, and
\* for every key whose first such segment is followed by an empty segment;
\* otherwise peerKind is that first segment, peerId the segment after it,
\* channel the segment at index 2 when peerKind sits at index 3 or later and
\* absent when it sits at index 2.
C14_FirstKindDecides ==
    last.op = "parseSessionKey" =>
        IF \/ Len(last.parts) < 4
           \/ KindAt(last.parts) = {}
           \/ last.parts[Least(KindAt(last.parts)) + 1] = ""
        THEN last.result = None
        ELSE last.result = ParsedAt(last.parts, Least(KindAt(last.parts)))

\* the first peer kind has an empty peer id and a later one has not: none
C14_Witness ==
    /\ last.op = "parseSessionKey"
    /\ last.parts = <<"agent", "tg", "direct", "", "direct", "p1">>
    /\ last.result = None

\* the command head of a content: its trimmed, lowercased text up to the
\* first whitespace character, or all of it when it has none
FirstWhitespace(s) ==
    IF \E i \in 1..Len(s) : s[i] \in {" ", "\t", "\n"}
    THEN Least({i \in 1..Len(s) : s[i] \in {" ", "\t", "\n"}})
    ELSE 0

Trimmed(content) == ToLowerCase(Trim(content))

HeadOf(content) ==
    IF FirstWhitespace(Trimmed(content)) = 0 THEN Trimmed(content)
    ELSE SubSeq(Trimmed(content), 1, FirstWhitespace(Trimmed(content)) - 1)

IsCommand(content) == StartsWith(Trimmed(content), <<"/">>)

\* the only whitespace inside the trimmed content is the space
OnlySpaces(content) ==
    \A i \in 1..Len(Trimmed(content)) : Trimmed(content)[i] \notin {"\t", "\n"}

BlocklistSays(content, sc) ==
    IF IsCommand(content) /\ HeadOf(content) \in Range(sc.blocked)
    THEN Some(HeadOf(content)) ELSE None

AllowlistSays(content, sc) ==
    IF ~IsCommand(content) THEN None
    ELSE IF HeadOf(content) \in Range(sc.allowed) THEN None
    ELSE Some(HeadOf(content))

\* C15: in blocklist mode with guestHelp unset, matchBlockedCommand returns
\* the command head (up to the first whitespace character) exactly when the
\* trimmed content starts with / and the head is in blocked, and none for
\* every other content.
C15_BlocklistMatchesHead ==
    (/\ last.op = "matchBlockedCommand"
     /\ SysCmds.mode = "blocklist" /\ SysCmds.guestHelp = None)
    => last.result = BlocklistSays(last.content, SysCmds)

\* the statement of C15 on contents whose arguments follow a space
C15_OnSpaces ==
    (/\ last.op = "matchBlockedCommand"
     /\ SysCmds.mode = "blocklist" /\ SysCmds.guestHelp = None
     /\ OnlySpaces(last.content))
    => last.result = BlocklistSays(last.content, SysCmds)

\* C16: in allowlist mode, for a content that starts with / after trimming,
\* matchBlockedCommand returns none when the head is in allowed (and is not
\* an intercepted /help) and the head otherwise; with an empty allowed list
\* every /command is returned; a content not starting with / is never
\* blocked.
C16_AllowlistBlocksTheRest ==
    (/\ last.op = "matchBlockedCommand"
     /\ SysCmds.mode = "allowlist"
     /\ ~(SysCmds.guestHelp # None /\ HeadOf(last.content) = cmdHelp))
    => /\ last.result = AllowlistSays(last.content, SysCmds)
       /\ (IsCommand(last.content) /\ SysCmds.allowed = <<>>) =>
             last.result = Some(HeadOf(last.content))

\* the statement of C16 on contents whose arguments follow a space
C16_OnSpaces ==
    (/\ last.op = "matchBlockedCommand"
     /\ SysCmds.mode = "allowlist"
     /\ OnlySpaces(last.content)
     /\ ~(SysCmds.guestHelp # None /\ HeadOf(last.content) = cmdHelp))
    => /\ last.result = AllowlistSays(last.content, SysCmds)
       /\ (IsCommand(last.content) /\ SysCmds.allowed = <<>>) =>
             last.result = Some(HeadOf(last.content))

HelpSays(content, sc) ==
    IF sc.guestHelp # None
    THEN Some(cmdHelp)
    ELSE IF sc.mode = "allowlist" THEN AllowlistSays(content, sc)
    ELSE BlocklistSays(content, sc)

\* C17: with guestHelp set, matchBlockedCommand returns /help for every
\* content whose head is /help, in both modes and whatever blocked and
\* allowed hold, and getBlockResponse("/help") returns guestHelp; with
\* guestHelp null, /help is treated like any other command and
\* getBlockResponse returns blockResponse for it.
C17_HelpIsIntercepted ==
    /\ (/\ last.op = "matchBlockedCommand"
        /\ IsCommand(last.content) /\ HeadOf(last.content) = cmdHelp)
       => last.result = HelpSays(last.content, SysCmds)
    /\ (last.op = "getBlockResponse" /\ last.command = cmdHelp)
       => last.result = (IF SysCmds.guestHelp # None THEN SysCmds.guestHelp[1]
                         ELSE SysCmds.blockResponse)

\* the statement of C17 on contents whose arguments follow a space
C17_OnSpaces ==
    /\ (/\ last.op = "matchBlockedCommand"
        /\ OnlySpaces(last.content)
        /\ IsCommand(last.content) /\ HeadOf(last.content) = cmdHelp)
       => last.result = HelpSays(last.content, SysCmds)
    /\ (last.op = "getBlockResponse" /\ last.command = cmdHelp)
       => last.result = (IF SysCmds.guestHelp # None THEN SysCmds.guestHelp[1]
                         ELSE SysCmds.blockResponse)

UpperCase == {"E", "H", "K", "L", "O", "P", "S", "T", "X"}

Normal(list) ==
    \A i \in 1..Len(list) :
       /\ StartsWith(list[i], <<"/">>)
       /\ \A k \in 1..Len(list[i]) : list[i][k] \notin UpperCase

\* C18: every entry of blocked and allowed of a loaded Policy starts with /
\* and is lowercase, whatever strings the input lists hold, and normalizing
\* the normalized lists again returns them unchanged.
C18_CommandsAreNormalized ==
    GuardOn =>
        /\ Normal(SysCmds.blocked) /\ Normal(SysCmds.allowed)
        /\ Len(SysCmds.blocked) = Len(doc.systemCommands[1].blocked.list)
        /\ Len(SysCmds.allowed) = Len(doc.systemCommands[1].allowed.list)
        /\ normalizeCommands(SysCmds.blocked) = SysCmds.blocked
        /\ normalizeCommands(SysCmds.allowed) = SysCmds.allowed

\* a loaded list that was given with upper case, whitespace and no slash
C18_Witness ==
    /\ GuardOn
    /\ doc.systemCommands[1].allowed = RawList(<<cmdHelp, <<"s", "T">>>>)
    /\ doc.systemCommands[1].blocked = RawList(<<<<"X">>>>)
    /\ SysCmds.allowed = <<cmdHelp, cmdSt>>
    /\ SysCmds.blocked = <<<<"/", "x">>>>

\* the suppressed count of peer p goes from 0 (no window, a fresh window or
\* an open window without suppression) to 1
FirstSuppression(before, after, p) ==
    /\ p \in DOMAIN after
    /\ after[p].suppressed = 1
    /\ \/ p \notin DOMAIN before
       \/ before[p].windowStart # after[p].windowStart
       \/ before[p].suppressed = 0

C20_WindowExpires ==
    [][/\ (hist'.calls = hist.calls + 1 /\ last'.op = "shouldLog"
             /\ last'.peerId \in DOMAIN peers) =>
             LET p == last'.peerId
             IN  /\ now - peers[p].windowStart >= WINDOW_MS =>
                       /\ last'.result
                       /\ peers'[p] = [windowStart |-> now, logged |-> 1, suppressed |-> 0]
                 /\ (/\ now - peers[p].windowStart < WINDOW_MS
                     /\ peers[p].logged >= Config.rateLimit[1]) =>
                       /\ ~last'.result
                       /\ peers'[p] = [peers[p] EXCEPT !.suppressed = @ + 1]
       /\ last'.op = "getSuppressed" =>
             last'.result =
                IF last'.peerId \notin DOMAIN peers' THEN 0
                ELSE IF now' - peers'[last'.peerId].windowStart >= WINDOW_MS THEN 0
                ELSE peers'[last'.peerId].suppressed]_vars

\* a known peer was logged again, in a fresh window, exactly WINDOW_MS after
\* an earlier logged call of its own
C20_Witness ==
    /\ last.op = "shouldLog"
    /\ last.result
    /\ peers[last.peerId] = [windowStart |-> now, logged |-> 1, suppressed |-> 0]
    /\ \E i \in 1..Len(hist.logged) :
          /\ hist.logged[i].peerId = last.peerId
          /\ hist.logged[i].at = now - WINDOW_MS

\* C21: rate-limiter state is per peer: a shouldLog or getSuppressed call for
\* one peer leaves the window start, logged count and suppressed count of
\* every other peer unchanged.
C21_OtherPeersUnchanged ==
    [][last'.op \in {"shouldLog", "getSuppressed"} =>
          \A q \in PeerIds \ {last'.peerId} :
             /\ q \in DOMAIN peers' <=> q \in DOMAIN peers
             /\ q \in DOMAIN peers => peers'[q] = peers[q]]_vars

\* p1 was logged in a window of its own while p2 was being suppressed
C21_Witness ==
    /\ last.op = "shouldLog" /\ last.peerId = "p1" /\ last.result
    /\ "p2" \in DOMAIN peers
    /\ peers["p2"].suppressed > 0
    /\ peers["p1"].windowStart # peers["p2"].windowStart

\* the window shouldLog works on: the stored one, or a fresh one when the
\* peer is unknown or its window has expired
CurrentWindow(ps, p, t) ==
    IF p \in DOMAIN ps /\ t - ps[p].windowStart < WINDOW_MS THEN ps[p]
    ELSE [windowStart |-> t, logged |-> 0, suppressed |-> 0]

\* C30: in every reachable RateLimiter state with limit N >= 1, each peer's
\* window has 0 <= logged <= N and suppressed >= 0, with suppressed > 0 only
\* when logged = N, and each shouldLog call increments exactly one of logged
\* (when it returns true) and suppressed (when it returns false) of the
\* called peer's current window.
C30_CountsWithinLimit ==
    /\ [](Running =>
            \A p \in DOMAIN peers :
               /\ 0 <= peers[p].logged /\ peers[p].logged <= Config.rateLimit[1]
               /\ peers[p].suppressed >= 0
               /\ peers[p].suppressed > 0 => peers[p].logged = Config.rateLimit[1])
    /\ [][(hist'.calls = hist.calls + 1 /\ last'.op = "shouldLog") =>
             LET w == CurrentWindow(peers, last'.peerId, now)
             IN  peers'[last'.peerId] =
                    IF last'.result THEN [w EXCEPT !.logged = @ + 1]
                    ELSE [w EXCEPT !.suppressed = @ + 1]]_vars

\* a peer at the limit of 2 with a suppressed line
C30_Witness ==
    /\ Running /\ Config.rateLimit = Some(2)
    /\ last.op = "shouldLog" /\ ~last.result
    /\ peers[last.peerId].logged = 2
    /\ peers[last.peerId].suppressed = 1

\* C23: no decision operation changes the Policy: across any sequence of
\* before_tool_call, message-received and message-sending events the
\* Policy's roles, defaultRole, toolGroups, failSafe, rateLimit,
\* systemCommands and warnings (and its log toggles) stay equal to their
\* values at load.
C23_PolicyIsNeverMutated ==
    Running => loaded[1] = parse(doc)

\* a reply was substituted after tool calls that filled the rate limiter
C23_Witness ==
    /\ Running
    /\ last.op = "message_sending" /\ last.result # None
    /\ hist.calls >= 2
    /\ \E p \in DOMAIN peers : peers[p].suppressed > 0

\* the verdict, from the roles, defaultRole, toolGroups and failSafe of the
\* Policy alone
ExpectedVerdict(t, k, P) ==
    IF NoSessionKey(k) THEN None
    ELSE IF parseSessionKey(k[1]) = None
    THEN IF P.failSafe = "deny" THEN Block(FailSafeReason) ELSE None
    ELSE LET parsed == parseSessionKey(k[1])[1]
             r == checkToolAccess(t, resolveRole(parsed.peerId, parsed.channel, P), P)
         IN  IF r.allowed THEN None ELSE Block(r.reason)

\* C24: the verdict of before_tool_call for a tool name and a session key is
\* a function of the Policy alone: whatever the earlier tool calls, the
\* rate-limiter state, the pending block and the logBlocked / logAllowed
\* toggles, the verdict (block or none, and the reason) is the same; rate
\* limiting changes only the log lines.
C24_VerdictDependsOnPolicyOnly ==
    last.op = "before_tool_call" =>
        /\ last.outcome = "return"
        /\ last.verdict = ExpectedVerdict(last.toolName, last.sessionKey, Config)

\* a denied call whose log line was suppressed, with a block pending
C24_Witness ==
    /\ last.op = "before_tool_call"
    /\ last.verdict # None /\ last.logs = <<>>
    /\ Config.logBlocked
    /\ \E p \in DOMAIN peers : peers[p].suppressed >= 2
    /\ pendingBlock # None

\* C25: when the document fails to load, register logs an error and no hook
\* and no rate limiter exists afterwards, so no verdict and no substitution
\* is ever produced; the two message hooks exist only when a valid policy
\* has systemCommands.
C25_InvalidPolicyRegistersNothing ==
    /\ (loaded # None /\ ~parse(doc).ok) =>
          /\ ~loaded[1].ok
          /\ last.op \in {"register", "tick"}
          /\ last.op = "register" => last.error
          /\ hist.calls = 0 /\ hist.owed = {}
          /\ peers = <<>> /\ pendingBlock = None
    /\ (loaded # None /\ parse(doc).ok /\ parse(doc).config.systemCommands = None) =>
          /\ last.op \notin {"message_received", "message_sending"}
          /\ pendingBlock = None

\* time passed after a failed load and nothing was registered
C25_Witness ==
    /\ loaded # None /\ ~loaded[1].ok
    /\ doc.failSafe = "maybe"
    /\ last.op = "tick"
    /\ hist.ticks = MaxTicks

\* the role entries of a document, none when roles is not an object
RawRoles(d) == IF d.roles = None THEN <<>> ELSE d.roles[1]

BadRole(r) ==
    \/ r.users.t \notin {"wild", "list"}
    \/ r.tools.t \notin {"wild", "list"}
    \/ r.channels.t \notin {"absent", "wild", "list"}

\* the steps of the documented validation sequence a document fails
FailedSteps(d) ==
    {n \in 1..9 :
       \/ n = 1 /\ RawRoles(d) = <<>>
       \/ n = 2 /\ \/ \E i \in 1..Len(RawRoles(d)) : BadRole(RawRoles(d)[i])
                   \/ \E i, j \in 1..Len(RawRoles(d)) :
                         /\ i < j
                         /\ RawRoles(d)[i].users.t = "wild"
                         /\ RawRoles(d)[j].users.t = "list"
       \/ n = 4 /\ (IF d.defaultRole = None THEN "guest" ELSE d.defaultRole[1])
                      \notin {RawRoles(d)[i].name : i \in 1..Len(RawRoles(d))}
       \/ n = 5 /\ d.toolGroups # None
                /\ \E k \in 1..Len(d.toolGroups[1]) : d.toolGroups[1][k].tools.t # "list"
       \/ n = 6 /\ \E i \in 1..Len(RawRoles(d)) :
                     \E e \in Range(RawRoles(d)[i].tools.list) :
                        /\ StartsWith(e, <<"@">>)
                        /\ \/ d.toolGroups = None
                           \/ \A k \in 1..Len(d.toolGroups[1]) :
                                 d.toolGroups[1][k].name # SubSeq(e, 2, Len(e))
       \/ n = 7 /\ d.failSafe \notin {"absent", "deny", "allow"}
       \/ n = 8 /\ d.rateLimit # None /\ d.rateLimit[1] < 1
       \/ n = 9 /\ ~parseSystemCommands(d.systemCommands).ok}

\* the step of the documented sequence that raises an error of the kind
StepOf(kind) ==
    CASE kind \in {"roles", "roles empty"} -> 1
      [] kind \in {"users", "tools", "channels", "wildcard order"} -> 2
      [] kind = "defaultRole" -> 4
      [] kind = "toolGroups" -> 5
      [] kind = "tool group" -> 6
      [] kind = "failSafe" -> 7
      [] kind = "rateLimit" -> 8
      [] OTHER -> 9

\* the same steps in the order the loader runs them
RunsAt(n) == IF n = 6 THEN 10 ELSE n

\* C26: when a document violates several validation rules, the loader raises
\* the error of the earliest failing step of the documented sequence: roles
\* shape, per-role parsing and wildcard ordering, defaultRole, toolGroups,
\* @group references, failSafe, rateLimit, systemCommands; an undefined
\* @group reference is reported before an invalid failSafe, rateLimit or
\* systemCommands.
C26_EarliestDocumentedStepFails ==
    (loaded # None /\ FailedSteps(doc) # {}) =>
        /\ ~loaded[1].ok
        /\ StepOf(loaded[1].error.kind) = Least(FailedSteps(doc))

\* the statement of C26 with the @group references checked last, on the
\* documents whose defaultRole is no inherited property
C26_OnOwnKeysGroupsLast ==
    (loaded # None /\ FailedSteps(doc) # {} /\ doc.defaultRole # Some(ProtoName)) =>
        /\ ~loaded[1].ok
        /\ \A n \in FailedSteps(doc) :
              RunsAt(StepOf(loaded[1].error.kind)) <= RunsAt(n)
        /\ StepOf(loaded[1].error.kind) \in FailedSteps(doc)

EmptyChannels(role) == ~role.channels.wild /\ Len(role.channels.list) = 0
EmptyTools(role) == ~role.tools.wild /\ Len(role.tools.list) = 0

RolesNamed(name) ==
    {i \in 1..Len(Config.roles) : Config.roles[i].name = name}

\* the document with every empty tools or channels list given one entry
FillList(v, e) == IF v.t = "list" /\ v.list = <<>> THEN RawList(<<e>>) ELSE v
Filled(d) ==
    [d EXCEPT !.roles =
        IF d.roles = None THEN None
        ELSE Some([i \in 1..Len(d.roles[1]) |->
                     [d.roles[1][i] EXCEPT !.tools = FillList(@, tEx),
                                           !.channels = FillList(@, "tg")]])]

\* a role with an empty tools list is denied every tool, and empty lists
\* add a warning at load without failing it
EmptyListsWarnOnly ==
    /\ loaded # None => (parse(doc).ok <=> parse(Filled(doc)).ok)
    /\ Running =>
          \A i \in 1..Len(Config.roles) :
             /\ EmptyTools(Config.roles[i]) <=>
                   Includes(Config.warnings,
                            [kind |-> "empty tools", role |-> Config.roles[i].name])
             /\ EmptyChannels(Config.roles[i]) <=>
                   Includes(Config.warnings,
                            [kind |-> "empty channels", role |-> Config.roles[i].name])
    /\ (Running /\ last.op = "checkToolAccess") =>
          \A i \in RolesNamed(last.roleName) :
             EmptyTools(Config.roles[i]) =>
                last.result = GuardDenied(last.roleName,
                                          NoAccess(last.roleName, last.toolName))

\* C27 (as stated): resolveRole never returns the name of a role whose
\* channels is an empty list, a role whose tools is an empty list is denied
\* every tool, and both conditions only add a warning at load.
C27_EmptyChannelsNeverReturned ==
    /\ EmptyListsWarnOnly
    /\ (Running /\ last.op = "resolveRole") =>
          \A i \in RolesNamed(last.result) : ~EmptyChannels(Config.roles[i])

\* C27 (amended): a role whose channels is an empty list matches no peer and
\* no channel; resolveRole returns its name only as the defaultRole, when no
\* role matches.  A role whose tools is an empty list is denied every tool,
\* and both conditions only add a warning at load.
C27_EmptyChannelsOnlyAsDefault ==
    /\ EmptyListsWarnOnly
    /\ (Running /\ last.op = "resolveRole") =>
          \A i \in RolesNamed(last.result) :
             EmptyChannels(Config.roles[i]) =>
                /\ last.result = Config.defaultRole
                /\ \A j \in 1..Len(Config.roles) :
                      ~(/\ usersMatch(Config.roles[j], last.peerId)
                        /\ channelsMatch(Config.roles[j], last.channel))

\* resolveRole has fallen back to a defaultRole whose channels list is empty,
\* for a peer that role lists
C27_Witness ==
    /\ Running /\ last.op = "resolveRole"
    /\ \E i \in RolesNamed(last.result) :
          /\ EmptyChannels(Config.roles[i])
          /\ usersMatch(Config.roles[i], last.peerId)
    /\ Len(Config.warnings) > 0

MenuName(sp) == normalizeTelegramCommandName(sp.name)
MenuUsable(sp) ==
    /\ MenuName(sp) # <<>> /\ TELEGRAM_COMMAND_NAME_PATTERN(MenuName(sp))
    /\ Trim(sp.description) # <<>>

\* the indices of 1..n outside the range of f, ascending
Others(f, n) == SelectSeq([i \in 1..n |-> i], LAMBDA i : i \notin Range(f))

\* f tells, for each returned command, the spec it comes from
MenuContract(specs, before, r, f) ==
    LET rejected == Others(f, Len(specs))
    IN  /\ \A i, j \in 1..Len(f) : i < j => f[i] < f[j]
        /\ \A i \in 1..Len(f) :
              /\ r.commands[i].command = MenuName(specs[f[i]])
              /\ r.commands[i].description = Trim(specs[f[i]].description)
              /\ r.commands[i].command \notin before
        /\ \A i, j \in 1..Len(f) :
              i # j => r.commands[i].command # r.commands[j].command
        /\ r.existingCommands =
              before \cup {r.commands[i].command : i \in 1..Len(f)}
        /\ Len(r.issues) = Len(rejected)
        /\ Len(r.commands) + Len(r.issues) = Len(specs)
        /\ \A k \in 1..Len(rejected) :
              LET sp == specs[rejected[k]]
                  addedEarlier ==
                      \E i \in 1..Len(f) :
                         f[i] < rejected[k] /\ r.commands[i].command = MenuName(sp)
              IN  /\ r.issues[k].kind = "duplicate" <=>
                         (MenuUsable(sp) /\ addedEarlier)
                  /\ r.issues[k].kind = "conflict" <=>
                         (MenuUsable(sp) /\ MenuName(sp) \in before)

\* C22: after buildPluginTelegramMenuCommands the returned commands have
\* pairwise distinct names, none of them in existingCommands before the call,
\* in the order of their specs; existingCommands is its previous contents
\* plus exactly the returned names; every rejected spec yields exactly one
\* issue; a repeated name is a duplicate when it was added earlier in the
\* same pass and a conflict when it was in existingCommands before the call.
C22_MenuBuilderContract ==
    last.op = "buildPluginTelegramMenuCommands" =>
        \E f \in [1..Len(last.result.commands) -> 1..Len(doc.specs)] :
            MenuContract(doc.specs, doc.existingCommands, last.result, f)

\* one pass has returned a command, reported a duplicate of it and reported
\* a conflict with a command that existed before
C22_Witness ==
    /\ last.op = "buildPluginTelegramMenuCommands"
    /\ Len(last.result.commands) > 0
    /\ \E i, j \in 1..Len(last.result.issues) :
          /\ last.result.issues[i].kind = "duplicate"
          /\ last.result.issues[j].kind = "conflict"

SyncSettled == last.op = "sync" /\ last.pc \in {"resolved", "caught"}

\* the positions of the calls of one API on one scope
CallsOf(api, scope) ==
    {i \in 1..Len(last.calls) :
        last.calls[i].api = api /\ last.calls[i].scope = scope}

\* the scope's delete precedes its set, and the set is there when sync() has
\* a list to set
DeleteThenSet(scope, commands, mustDelete) ==
    /\ mustDelete => CallsOf("deleteMyCommands", scope) # {}
    /\ commands # <<>> => CallsOf("setMyCommands", scope) # {}
    /\ \A i \in CallsOf("deleteMyCommands", scope),
          j \in CallsOf("setMyCommands", scope) : i < j

EveryScopeServed ==
    /\ last.pc = "resolved"
    /\ doc.rbacScoping = None =>
          DeleteThenSet(DefaultScope, doc.commandsToRegister, doc.hasDelete)
    /\ doc.rbacScoping # None =>
          /\ DeleteThenSet(DefaultScope, doc.rbacScoping[1].guestCommands,
                           doc.hasDelete)
          /\ \A k \in 1..Len(doc.rbacScoping[1].adminChatIds) :
                DeleteThenSet(doc.rbacScoping[1].adminChatIds[k],
                              doc.commandsToRegister, TRUE)

\* C28: in syncTelegramMenuCommands a failure of any single menu API call
\* (deleteMyCommands or setMyCommands, default scope or one admin chat) is
\* swallowed and the adapter continues with the remaining scopes: every
\* admin chat still gets its delete followed by its set, each scope's delete
\* precedes its set, and no failure propagates to the caller.
C28_EveryFailureIsSwallowedPerCall ==
    SyncSettled => EveryScopeServed

\* the same when no setMyCommands call has failed
C28_OnFailedDeletes ==
    (/\ SyncSettled
     /\ \A i \in 1..Len(last.calls) :
           last.calls[i].failed => last.calls[i].api = "deleteMyCommands")
    => EveryScopeServed

\* a failed setMyCommands has ended sync() before the last admin chat
C28_SetFailureEndsSync ==
    /\ last.op = "sync" /\ last.pc = "caught"
    /\ doc.rbacScoping # None
    /\ last.chat < Len(doc.rbacScoping[1].adminChatIds)

\* the command the plugin's message_received handler would arm for the
\* sender on the channel, None when it arms nothing or was never registered
PluginArms(d, senderId, command, channel) ==
    IF ~parse(d).ok \/ parse(d).config.systemCommands = None THEN None
    ELSE commandToBlock(Some(command), Some(senderId), channel, parse(d).config)

Agrees(d, senderId, command, channel, r) ==
    LET armed == PluginArms(d, senderId, command, channel)
    IN  /\ r.blocked <=> armed # None
        /\ r.blocked =>
              r.response = Some(getBlockResponse(armed[1],
                                                 parse(d).config.systemCommands[1]))

\* C29: for every policy document, sender and command, checkRbacCommand
\* reports blocked exactly when the plugin's command guard would arm a
\* pending block for that sender and command, and its response is then
\* getBlockResponse of that command; response is non-null exactly when
\* blocked, and without RBAC roles it returns isAdmin = true, blocked = false.
C29_NativeGuardAgreesWithPlugin ==
    last.op = "checkRbacCommand" =>
        /\ \A channel \in Channels :
              Agrees(doc, last.senderId, last.command, channel, last.result)
        /\ last.result.response # None <=> last.result.blocked
        /\ doc.roles = None =>
              last.result = RbacCommandCheck(TRUE, FALSE, None)

\* documents on which the two guards read the same policy: the only role
\* with every tool is named admin and lists its users, no role is bound to a
\* channel, and the command lists are written in normal form
SamePolicy(d) ==
    /\ d.roles # None /\ parse(d).ok
    /\ \A i \in 1..Len(d.roles[1]) :
          /\ d.roles[1][i].channels.t = "absent"
          /\ d.roles[1][i].tools.t = "wild" <=> d.roles[1][i].name = "admin"
          /\ d.roles[1][i].name = "admin" => d.roles[1][i].users.t = "list"
    /\ d.systemCommands # None =>
          /\ d.systemCommands[1].blocked.list =
                normalizeCommands(d.systemCommands[1].blocked.list)
          /\ d.systemCommands[1].allowed.list =
                normalizeCommands(d.systemCommands[1].allowed.list)

C29_OnSamePolicy ==
    (last.op = "checkRbacCommand" /\ SamePolicy(doc)) =>
        /\ \A channel \in Channels :
              Agrees(doc, last.senderId, last.command, channel, last.result)
        /\ last.result.response # None <=> last.result.blocked

\* the native guard has blocked a command for a sender the plugin treats as
\* an administrator on every channel
C29_NativeBlocksPluginAdmin ==
    /\ last.op = "checkRbacCommand" /\ last.result.blocked
    /\ parse(doc).ok
    /\ \A channel \in Channels :
          isAdminByTools(resolveRole(last.senderId, channel, parse(doc).config),
                         parse(doc).config.roles)

====
